---- MODULE Spec2Model ----
(***************************************************************************)
(* Video Metadata DB (src/video_metadata_db.py): the concurrent            *)
(* probe-and-write pipeline (threads_query / query_file /                  *)
(* save_video_information / query_file_update_check), the pure formatting  *)
(* helpers it uses, the variant report and the run as a whole.             *)
(*                                                                         *)
(* Specifications over the variables below:                                *)
(*   Spec        one threads_query call: a pool of workers, each running   *)
(*               query_file on one path, over the shared stream, counters, *)
(*               failure map and locks (FairSpec: the same, with the       *)
(*               scheduler's fairness; HangSpec: the same, with fairness   *)
(*               for the program's own steps only, so that a probe or a    *)
(*               notification may never return);                           *)
(*   SpecProgress  percentage_completion_print applied to one pair of      *)
(*               success counter and target total;                         *)
(*   SpecEncode  save_video_information applied to one dual-probe output,  *)
(*               followed by the read-back of parse_metadata_file_tsv;     *)
(*   SpecHms     the duration field formatting of save_video_information   *)
(*               (total_time_in_hms_get_for_seconds_micro, concise);       *)
(*   SpecVariants  parse_metadata_file_tsv and variant_report over the     *)
(*               databases of the top-level paths of one run;              *)
(*   SpecMain    one run of main: the merge (db_metadata_merge) with the   *)
(*               contents of its files, or the passes of process_path over *)
(*               the top-level paths, with the streams opened on the       *)
(*               database and the run counters;                            *)
(*   SpecDispatch  the pre-pass and the probing pass of one run over       *)
(*               directories: the list main hands to process_dir, the      *)
(*               lists the pool gets, the target total and the markers.    *)
(*                                                                         *)
(* Text is modelled by TLA+ strings; a stream is the sequence of the       *)
(* bursts of write() calls made on it, one burst per stretch of            *)
(* save_video_information that runs without waiting for a lock.  A         *)
(* `with lock:` block whose body neither waits for another lock nor calls  *)
(* the encoder is one atomic step guarded by the lock being free; a block  *)
(* whose body does (mutex_file around save_video_information, mutex_count  *)
(* around the progress report, mutex_console taken inside either) is an    *)
(* acquire step followed by its body.                                      *)
(***************************************************************************)
EXTENDS Integers, Sequences, FiniteSets, TLC

VARIABLES
    mode_open,              \* "w" (rebuild) or "a" (update), main 1527-1532
    percentage_gather,      \* the pre-pass flag handed to query_file
    verbose,                \* the verbose flag handed to query_file
    db,                     \* the bursts of writes made on the shared stream file_dimensions, in order
    offset,                 \* the stream's offset as tell() reports it, counted in bursts
    total_count_files,      \* query_file.total_count_files
    total_count_queried,    \* query_file.total_count_queried
    total_count_percentage, \* query_file.total_count_percentage
    total_time_queried,     \* query_file.total_time_queried, in measured intervals
    total_time_db_save,     \* query_file.total_time_db_save, in measured intervals
    dict_files_failed,      \* the failure map: path index -> reason
    mutex,                  \* holder of each of the five locks, 0 when free
    pc,                     \* position of each query_file call
    output_video,           \* what the video probe of each path did (kept after the call returns)
    output_audio,           \* what the audio probe of each path did (kept after the call returns)
    save_rest,              \* per call: the writes save_video_information still has to make
    events,                 \* per call: what query_file did for the path, in order (kept after the call returns)
    tq,                     \* threads_query: "idle" (not called), "running", "returned" or "raised"
    fn_phase,               \* outside Spec: position of the function or run modelled ("unused" in Spec)
    fn_in,                  \* outside Spec: the input drawn
    fn_out                  \* outside Spec: the result, and the variables of the functions modelled

vars == << mode_open, percentage_gather, verbose, db, offset, total_count_files,
           total_count_queried, total_count_percentage, total_time_queried,
           total_time_db_save, dict_files_failed, mutex, pc, output_video,
           output_audio, save_rest, events, tq, fn_phase, fn_in, fn_out >>

pool_vars == << mode_open, percentage_gather, verbose, db, offset, total_count_files,
                total_count_queried, total_count_percentage, total_time_queried,
                total_time_db_save, dict_files_failed, mutex, pc, output_video,
                output_audio, save_rest, events, tq >>

-----------------------------------------------------------------------------
(* Bounds of the model *)

\* Number of paths handed to one threads_query call.
NumFiles == 2

\* Whole seconds 0..MaxSeconds are among the durations SpecHms draws.
MaxSeconds == 130

\* Target totals 1..MaxTotal are handed to the progress reporter on its own.
MaxTotal == 210

\* Number of lines one run of the variant report reads: the rows of its
\* databases and the ends of all databases but the last.
MaxLines == 4

Files == 1..NumFiles

-----------------------------------------------------------------------------
(* Program constants *)

\* multiprocessing.cpu_count(): the number of cores of the host
cpu_count == 1

\* COUNT_THREADS = multiprocessing.cpu_count() * 4
COUNT_THREADS == cpu_count * 4

\* The indices of save_video_information, 0-based as in the source; line i of a
\* probe output is element i + 1 of the sequence that models it.
INDEX_OUTPUT_LINE_VIDEO_CODEC_LONG_NAME == 0
INDEX_OUTPUT_LINE_VIDEO_WIDTH == 1
INDEX_OUTPUT_LINE_VIDEO_HEIGHT == 2
INDEX_OUTPUT_LINE_STREAMS_TOTAL == 3
INDEX_OUTPUT_LINE_VIDEO_FORMAT_CONTAINER == 4
INDEX_OUTPUT_LINE_VIDEO_DURATION == 5
INDEX_OUTPUT_LINE_TITLE == 6
INDEX_OUTPUT_LINE_AUDIO_CODEC_LONG_NAME == 0
INDEX_OUTPUT_LINE_AUDIO_CHANNELS == 1

LockNames == {"mutex_count", "mutex_time", "mutex_console", "mutex_file",
              "mutex_list_files_failed_probe"}

-----------------------------------------------------------------------------
(* Arithmetic and text helpers of the Python runtime *)

\* round(n / d) for n >= 0, d > 0: Python rounds halves to the even neighbour.
round_half_even(n, d) ==
    LET q == n \div d
        r == n % d
    IN  IF 2 * r < d THEN q
        ELSE IF 2 * r > d THEN q + 1
        ELSE IF q % 2 = 0 THEN q ELSE q + 1

Spaces(k) == IF k <= 0 THEN "" ELSE IF k = 1 THEN " " ELSE IF k = 2 THEN "  "
             ELSE IF k = 3 THEN "   " ELSE "    "

\* "{:>4}".format(s): right-align in a field of four, padding with spaces
format_right4(s) == IF Len(s) >= 4 THEN s ELSE Spaces(4 - Len(s)) \o s

\* "{:>04}".format(""): the zero-padded placeholder
format_zero4_empty == "0000"

\* str(x) of a float x = c/100 with 0 <= c <= 100 (the result of round(seconds_raw, 2))
str_float_hundredths(c) ==
    IF c = 0 THEN "0.0"
    ELSE IF c = 100 THEN "1.0"
    ELSE IF c % 10 = 0 THEN "0." \o ToString(c \div 10)
    ELSE IF c < 10 THEN "0.0" \o ToString(c)
    ELSE "0." \o ToString(c)

-----------------------------------------------------------------------------
(* total_time_in_hms_get_for_seconds, lines 69-101.  seconds_raw is the    *)
(* rational num / den (den > 0, num >= 0).                                 *)

\* minutes = round(seconds / 60); hours = round(minutes / 60)
hms_carry(n) == round_half_even(n, 60)

\* The three components the function ends with: hours, minutes, and the
\* text of str(seconds) (seconds is an int, or the float of round(seconds_raw, 2)).
hms_parts(num, den) ==
    LET seconds0 == round_half_even(num, den)
        minutes1 == IF seconds0 >= 60 THEN hms_carry(seconds0) ELSE 0
        seconds1 == IF seconds0 >= 60 THEN seconds0 % 60 ELSE seconds0
        hours    == IF minutes1 >= 60 THEN hms_carry(minutes1) ELSE 0
        minutes  == IF minutes1 >= 60 THEN minutes1 % 60 ELSE minutes1
        not_h_and_m == ~(hours # 0 /\ minutes # 0)
        seconds  == IF not_h_and_m /\ num < den /\ num > 0
                        THEN str_float_hundredths(round_half_even(num * 100, den))
                    ELSE IF not_h_and_m /\ num < 60 * den /\ num > den
                        THEN ToString(round_half_even(num, den))
                    ELSE ToString(seconds1)
    IN  [hours |-> hours, minutes |-> minutes, seconds |-> seconds]

total_time_in_hms_get_for_seconds(num, den, concise) ==
    LET p == hms_parts(num, den)
    IN  IF concise
        THEN (IF p.hours # 0 THEN ToString(p.hours) \o "h:" ELSE "")
             \o (IF p.minutes # 0 THEN ToString(p.minutes) \o "m:" ELSE "")
             \o (p.seconds \o "s")
        ELSE (IF p.hours # 0 THEN ToString(p.hours) \o " hour(s) " ELSE "")
             \o (IF p.minutes # 0 THEN ToString(p.minutes) \o " minute(s) " ELSE "")
             \o (p.seconds \o " second(s)")

\* total_time_in_hms_get_for_seconds_micro, lines 105-106: total_time_us / 1000000.
\* Microsecond amounts are held in units of 10^4 microseconds (hundredths of a
\* second), which keeps them inside TLC's integers.
total_time_in_hms_get_for_seconds_micro(total_time_us, concise) ==
    total_time_in_hms_get_for_seconds(total_time_us, 100, concise)

\* total_time_in_hms_get_for_seconds_nano, lines 109-110: total_time_ns / 1000000000.
\* Nanosecond amounts are held in units of 10^7 nanoseconds.
total_time_in_hms_get_for_seconds_nano(total_time_ns, concise) ==
    total_time_in_hms_get_for_seconds(total_time_ns, 100, concise)

-----------------------------------------------------------------------------
(* Duration lines.  ffprobe prints the container duration as a decimal     *)
(* number of seconds or as the literal N/A.  The model's numeric lines are *)
(* the decimal texts of the hundredths in DurationHundredths; float() of a *)
(* line is found by search among them, any other text is a ValueError.     *)

\* the decimal text of c / 100 seconds: "90", "0.5", "0.25", "3661"
decimal_text(c) ==
    IF c % 100 = 0 THEN ToString(c \div 100)
    ELSE IF c % 10 = 0 THEN ToString(c \div 100) \o "." \o ToString((c % 100) \div 10)
    ELSE IF c % 100 < 10 THEN ToString(c \div 100) \o ".0" \o ToString(c % 100)
    ELSE ToString(c \div 100) \o "." \o ToString(c % 100)

DurationHundredths ==
    {100 * s : s \in 0..MaxSeconds}
        \cup {1, 5, 50, 99, 101, 150, 250, 5949, 5950, 5999, 6050}
        \cup {100 * s : s \in {3599, 3600, 3661, 5400, 7200, 86399}}

\* the numeric lines
DurationLines == {decimal_text(c) : c \in DurationHundredths}

\* the value of each numeric line, in hundredths
duration_values ==
    [text \in DurationLines |-> CHOOSE c \in DurationHundredths : decimal_text(c) = text]

\* float(text): the hundredths of the number, or -1 for a ValueError
float_hundredths(text) ==
    IF text \in DurationLines THEN duration_values[text] ELSE -1

\* total_time_in_hms_get_for_seconds_micro(float(duration_video) * 1000000, True)
\* of every numeric line.  float(duration_video) * 1000000 is the number of
\* hundredths in the unit of total_time_in_hms_get_for_seconds_micro.
duration_tokens ==
    [text \in DurationLines |->
        total_time_in_hms_get_for_seconds_micro(float_hundredths(text), TRUE)]

\* save_video_information, lines 269-279: the text of the duration field, or
\* "ValueError" when float() raises
duration_field(line) ==
    IF line # "N/A"
    THEN IF float_hundredths(line) = -1 THEN "ValueError" ELSE duration_tokens[line]
    ELSE line

-----------------------------------------------------------------------------
(* Paths.  A path is the sequence of its components; the paths handed to   *)
(* one threads_query call are distinct, and paths 1 and 2 lie in the same  *)
(* directory.                                                              *)

path_components(f) ==
    << "v", "D" \o ToString((f + 1) \div 2), "f" \o ToString(f) \o ".mkv" >>

os_path_dirname(p) == SubSeq(p, 1, Len(p) - 1)

os_path_basename(p) == IF Len(p) = 0 THEN "" ELSE p[Len(p)]

RECURSIVE path_text(_)
path_text(p) == IF Len(p) = 0 THEN "" ELSE path_text(os_path_dirname(p)) \o "/" \o p[Len(p)]

\* get_volume_label, lines 169-187, on a Unix host: the first mount point
label_volume_of(f) == "/"

-----------------------------------------------------------------------------
(* sizeof_fmt, lines 190-196.  num is the rational n / d. *)

size_units == << "", "Ki", "Mi", "Gi", "Ti", "Pi", "Ei", "Zi" >>

\* "%3.1f%s%s" % (num, unit, suffix)
format_1f(n, d, unit) ==
    LET tenths == round_half_even(n * 10, d)
    IN  ToString(tenths \div 10) \o "." \o ToString(tenths % 10) \o unit \o "B"

RECURSIVE sizeof_fmt_from(_, _, _)
sizeof_fmt_from(n, d, i) ==
    IF i > Len(size_units) THEN format_1f(n, d, "Yi")
    ELSE IF n < 1024 * d THEN format_1f(n, d, size_units[i])
    ELSE sizeof_fmt_from(n, d * 1024, i + 1)

sizeof_fmt(num) == sizeof_fmt_from(num, 1, 1)

-----------------------------------------------------------------------------
(* save_video_information, lines 215-413.                                  *)
(*                                                                         *)
(* A write is [c, s, t]: s is the text of the field, t what the same       *)
(* write() call puts after it (a tab, nothing, or the newline), and c      *)
(* names the write statement it comes from (a label, not part of the       *)
(* file's content).  env is what the file system answers: stat is the      *)
(* size of the video file or -1 when os.stat raises, srt and hi are the    *)
(* sizes of the two subtitle siblings or -1 when they do not exist.        *)

W(c, s, t) == [c |-> c, s |-> s, t |-> t]

line(lines, index) == lines[index + 1]

\* lines 297-304: the allow-list of codecs that need no compression
codec_video_compressed_hevc_only == {"H.265 / HEVC (High Efficiency Video Coding)"}

codec_video_compressed ==
    {"Alliance for Open Media AV1", "H.265 / HEVC (High Efficiency Video Coding)"}

\* lines 296-304
compression_candidate(codec_video_name) ==
    IF codec_video_name \in codec_video_compressed THEN "N" ELSE "Y"

\* lines 240-267: the resolution fields
resolution_writes(width, height) ==
    IF Len(width) # 0 /\ Len(height) # 0
    THEN << W("width", format_right4(width), "\t"),
            W("height", format_right4(height), "\t") >>
    ELSE (IF Len(width) = 0 THEN << W("width", format_zero4_empty, "\t") >> ELSE << >>)
         \o (IF Len(height) = 0 THEN << W("height", format_zero4_empty, "\t") >> ELSE << >>)

\* lines 279-317, after the duration and the stat succeeded
middle_writes(lines_video, duration_video, st_size) ==
    LET codec_video_name == line(lines_video, INDEX_OUTPUT_LINE_VIDEO_CODEC_LONG_NAME)
    IN  << W("duration", duration_video, "\t"),
           W("size", sizeof_fmt(st_size), "\t"),
           W("raw_size", ToString(st_size), "\t"),
           W("codec", codec_video_name, "\t"),
           W("candidate", compression_candidate(codec_video_name), "\t"),
           W("streams", line(lines_video, INDEX_OUTPUT_LINE_STREAMS_TOTAL), "\t"),
           W("container", line(lines_video, INDEX_OUTPUT_LINE_VIDEO_FORMAT_CONTAINER), "\t") >>

\* lines 320-332
audio_present(lines_audio) == Len(lines_audio) = INDEX_OUTPUT_LINE_AUDIO_CHANNELS + 1

audio_writes(lines_audio) ==
    IF audio_present(lines_audio)
    THEN << W("channels", line(lines_audio, INDEX_OUTPUT_LINE_AUDIO_CHANNELS), "\t"),
            W("audio_codec", line(lines_audio, INDEX_OUTPUT_LINE_AUDIO_CODEC_LONG_NAME), "\t") >>
    ELSE << >>

\* lines 345-352
title_write(lines_video) ==
    IF Len(lines_video) = INDEX_OUTPUT_LINE_TITLE
    THEN W("title", "<Title Not Set>", "\t")
    ELSE W("title", line(lines_video, INDEX_OUTPUT_LINE_TITLE), "\t")

\* lines 355-382
subtitle_writes(env) ==
    (IF env.srt >= 0
     THEN << W("srt", "Y", "\t"), W("srt_size", ToString(env.srt), "\t") >>
     ELSE << W("srt", "N", "\t"), W("srt_size", " ", "\t") >>)
    \o (IF env.hi >= 0
        THEN << W("hi", "Y", "\t"), W("hi_size", ToString(env.hi), "\t") >>
        ELSE << W("hi", "N", "\t"), W("hi_size", " ", "\t") >>)

\* lines 384-400 (on a Unix host the path is written as it is)
tail_writes(file_video, label_volume) ==
    << W("volume", label_volume, "\t"), W("path", file_video, ""), W("newline", "", "\n") >>

\* line 238
long_enough(lines_video) == Len(lines_video) >= INDEX_OUTPUT_LINE_TITLE

\* lines 401-413: the video output is below the minimum line count; nothing is
\* written, the diagnostic is printed
short_output_partial ==
    [pre |-> << W("width", format_zero4_empty, "\t") >>, diag |-> "short", post |-> << >>,
     raised |-> "none"]

short_output == [pre |-> << >>, diag |-> "short", post |-> << >>, raised |-> "none"]

\* The whole call.  pre: the writes made up to the first of: the diagnostic printed
\* under mutex_console (diag), the exception (raised), the end.  post: the writes
\* made after the diagnostic.
save_video_information(file_video, lines_video, lines_audio, label_volume, env) ==
    IF ~long_enough(lines_video)
    THEN short_output
    ELSE
    LET res == resolution_writes(line(lines_video, INDEX_OUTPUT_LINE_VIDEO_WIDTH),
                                 line(lines_video, INDEX_OUTPUT_LINE_VIDEO_HEIGHT))
        duration_video == duration_field(line(lines_video, INDEX_OUTPUT_LINE_VIDEO_DURATION))
        rest == << title_write(lines_video) >> \o subtitle_writes(env)
                    \o tail_writes(file_video, label_volume)
    IN  IF duration_video = "ValueError"
        THEN [pre |-> res, diag |-> "none", post |-> << >>, raised |-> "ValueError"]
        ELSE IF env.stat < 0
        THEN [pre |-> res \o << W("duration", duration_video, "\t") >>,
              diag |-> "none", post |-> << >>, raised |-> "OSError"]
        ELSE IF audio_present(lines_audio)
        THEN [pre |-> res \o middle_writes(lines_video, duration_video, env.stat)
                          \o audio_writes(lines_audio) \o rest,
              diag |-> "none", post |-> << >>, raised |-> "none"]
        ELSE [pre |-> res \o middle_writes(lines_video, duration_video, env.stat),
              diag |-> "audio", post |-> rest, raised |-> "none"]

-----------------------------------------------------------------------------
(* percentage_completion_print, lines 456-504.  The function reads the     *)
(* counters query_file.total_count_queried and                             *)
(* query_file.total_count_percentage itself (queried, percentage); of its  *)
(* parameters it uses count_processed only.  The result is what it prints. *)

\* lines 458-465: round(total_count_percentage * (1 / 100)), or 1 when that is 0
CHECKPOINT_FILES_QUERIED(percentage) ==
    IF round_half_even(percentage, 100) = 0 THEN 1 ELSE round_half_even(percentage, 100)

\* The pairs (queried, percentage) with percentage up to 210 for which the
\* binary floating-point product (queried / percentage) * 100 of lines 484-485
\* falls just below the whole number it stands for: (29 / 50) * 100 is
\* 57.99999999999999
floor_float_low ==
    { << 29, 50 >>, << 29, 100 >>, << 57, 100 >>, << 58, 100 >>, << 87, 150 >>,
      << 58, 200 >>, << 114, 200 >>, << 116, 200 >> }

\* lines 470-473: round((queried / percentage) * 100), the value the code
\* computes and stalls at 99 but does not print
percent_complete_round(queried, percentage) == round_half_even(queried * 100, percentage)

\* lines 482-487: math.floor((queried / percentage) * 100), the value printed
percent_complete_floor(queried, percentage) ==
    IF << queried, percentage >> \in floor_float_low
    THEN ((queried * 100) \div percentage) - 1
    ELSE (queried * 100) \div percentage

\* lines 482-487, 496: str(math.floor(...)) and the text after it
status_line(queried, percentage) ==
    ToString(percent_complete_floor(queried, percentage)) \o "% of files in queue queried"

percentage_completion_print(count_processed, count_total, queried, percentage) ==
    IF count_processed % CHECKPOINT_FILES_QUERIED(percentage) = 0
    THEN IF queried < percentage THEN << status_line(queried, percentage) >> ELSE << >>
    ELSE IF queried = percentage THEN << "All files in queue queried" >> ELSE << >>

-----------------------------------------------------------------------------
(* The stream file_dimensions: io.open(path, mode_open, encoding =         *)
(* "utf-8-sig") with mode_open "w" or "a".  Both modes open the descriptor *)
(* for writing only.                                                       *)

\* the offset of the end of the stream, counted in bursts
stream_size(stream) == Len(stream)

descriptor_readable(mode) == mode \notin {"w", "a"}

\* mmap.mmap(fileno, 0, access = mmap.ACCESS_READ): an empty file cannot be
\* mapped, and a mapping for reading needs a descriptor open for reading
mmap_mmap(stream, mode) ==
    IF Len(stream) = 0 THEN "ValueError"
    ELSE IF ~descriptor_readable(mode) THEN "PermissionError"
    ELSE "ok"

\* The texts that may stand before or after a directory name inside a write
Affixes == {""} \cup {"/v/"} \cup {"/f" \o ToString(i) \o ".mkv" : i \in 0..NumFiles}

contains_text(hay, needle) == \E a \in Affixes, b \in Affixes : hay = a \o needle \o b

\* mmap.find(sub): sub must be bytes; the call is made with a str
mmap_find(stream, needle, needle_is_bytes) ==
    IF ~needle_is_bytes THEN "TypeError"
    ELSE IF \E i \in 1..Len(stream) : \E j \in 1..Len(stream[i].w) :
                    contains_text(stream[i].w[j].s, needle) THEN "found"
    ELSE "-1"

\* file.seek(offset, whence) on the text stream from position 0
seek_from_start(stream, target, whence) ==
    IF whence \notin {0, 1, 2} THEN -1
    ELSE IF whence = 2 THEN stream_size(stream) + target
    ELSE target

\* query_file_update_check, lines 427-452.  Returns what the call did:
\* raised (the exception, or "none"), update (the returned flag) and the
\* offset it leaves the stream at.
query_file_update_check(path_file, stream, offset_now, mode) ==
    LET offset_db_original == offset_now
        mapped == mmap_mmap(stream, mode)
        found == mmap_find(stream, os_path_basename(os_path_dirname(path_file)), FALSE)
        back == seek_from_start(stream, 0, offset_db_original)
    IN  IF mapped # "ok" THEN [raised |-> mapped, update |-> TRUE, offset |-> 0]
        ELSE IF found = "TypeError" THEN [raised |-> found, update |-> TRUE, offset |-> 0]
        ELSE IF found = "-1"
             THEN IF back = -1 THEN [raised |-> "ValueError", update |-> TRUE, offset |-> 0]
                  ELSE [raised |-> "none", update |-> TRUE, offset |-> back]
        ELSE [raised |-> "none", update |-> FALSE, offset |-> 0]

\* file_stream.write, for the writes of one burst: in mode "a" every write lands
\* at the end of the file.  o names the call that made the burst (a label, not
\* part of the file's content).
stream_write_lost(stream, who, writes) == stream

stream_write(stream, who, writes) ==
    IF Len(writes) = 0 THEN stream ELSE Append(stream, [o |-> who, w |-> writes])

-----------------------------------------------------------------------------
(* What the external probe can answer *)

NoOutput == [st |-> "none", lines |-> << >>]

\* check = True raises CalledProcessError on a nonzero exit; a binary that cannot
\* be launched raises FileNotFoundError, at the first of the two calls
ProbeFailures == {"CalledProcessError", "FileNotFoundError"}

AudioProbeFailures == {"CalledProcessError"}

\* subprocess.run(..., check = True) of the video probe: the lines of its output
\* (a complete one, and one of a file without a video stream)
VideoOutputs ==
    { << "Google VP9", "1920", "1080", "2", "Matroska / WebM", "90", "Up" >>,
      << "2", "Matroska / WebM", "90" >> }

\* the lines of the audio probe's output (an audio stream at index 0, or none)
AudioOutputs == { << "Vorbis", "2" >>, << >> }

\* os.stat of the video file and os.path.exists of the subtitle siblings
FileSystemAnswers ==
    { [stat |-> 1536, srt |-> -1, hi |-> -1], [stat |-> -1, srt |-> -1, hi |-> -1] }

\* The database left by an earlier run, for mode "a"
ExistingRow ==
    stream_write(<< >>, 0,
        save_video_information("/v/D1/f0.mkv",
            << "Google VP9", "1920", "1080", "2", "Matroska / WebM", "90", "Up" >>,
            << "Vorbis", "2" >>, "/", [stat |-> 1536, srt |-> -1, hi |-> -1]).pre)

ExistingDbs == { << >>, ExistingRow }

-----------------------------------------------------------------------------
(* One threads_query call, lines 919-942: pool.starmap(query_file, ...)    *)
(* over the paths 1..NumFiles.  With at most 16 * cpu_count paths starmap  *)
(* makes every path a task of its own; a task that raises does not stop    *)
(* the others, and starmap re-raises once every task has ended.            *)

Terminal == {"return_gather", "return_skip", "return_end", "raised"}

Free(l) == mutex[l] = 0

Acquire(l, f) == [mutex EXCEPT ![l] = f]

Release(l) == [mutex EXCEPT ![l] = 0]

Goto(f, label) == pc' = [pc EXCEPT ![f] = label]

\* the call for path f did the steps named, in this order
Did(f, steps) == events' = [events EXCEPT ![f] = @ \o steps]

\* A pool of COUNT_THREADS workers: a task is taken up only by a free worker
WorkerFree == Cardinality({g \in Files : pc[g] \notin Terminal \cup {"start"}}) < COUNT_THREADS

\* dict_files_failed.update({path_file: reason})
dict_update_lost(d, k, v) == d

dict_update(d, k, v) == [x \in (DOMAIN d) \cup {k} |-> IF x = k THEN v ELSE d[x]]

\* lines 534-535 and 695-697: `+= 1` under mutex_count
count_unchanged(n) == n

count_increment(n) == n + 1

\* lines 635 and 660: the except clauses of the probe's try statement, one for
\* CalledProcessError and a bare one for everything else
caught_called_process_error_only(kind) == kind = "CalledProcessError"

probe_failure_caught(kind) == kind = "CalledProcessError" \/ kind # "CalledProcessError"

\* lines 588-677: where the try statement goes after a probe call ended with st
after_probe_unchecked(st, next) == next

after_probe(st, next) ==
    IF st = "ok" THEN next
    ELSE IF probe_failure_caught(st) THEN "except_update"
    ELSE "raised"

\* lines 580-584: what query_file does first once the path is counted
first_step_unfiltered(mode) == "time_start"

first_step(mode) == IF mode = "a" THEN "update_check" ELSE "time_start"

\* lines 584-585: the `with mutex_time` block that reads the clock ends before
\* the try statement of the probes
mutex_time_kept(f) == Acquire("mutex_time", f)

mutex_time_released(f) == mutex

\* lines 682-690: a `with` block releases its lock also when its body raises
with_exit_keeps(l) == mutex

with_exit(l) == Release(l)

\* lines 201-202, 641, 666, 721: `with mutex_console` before anything is printed
console_unguarded(f) == TRUE

console_guard(f) == Free("mutex_console")

InitPool ==
    /\ mode_open \in {"w", "a"}
    /\ percentage_gather \in BOOLEAN
    \* main, lines 1498-1565: the pre-pass is made only without the update
    \* option, and process_path is handed no verbose flag for it.  The probing
    \* pass is modelled with the verbose flag set: without it query_file only
    \* leaves out the step VerbosePrint.
    /\ percentage_gather => mode_open = "w"
    /\ verbose = ~percentage_gather
    \* after a pre-pass over the same list the target total is its length
    /\ total_count_percentage \in
            IF mode_open = "w" /\ ~percentage_gather THEN {0, NumFiles} ELSE {0}
    /\ db \in IF mode_open = "w" THEN {<< >>} ELSE ExistingDbs
    /\ offset = stream_size(db)
    /\ total_count_files = 0
    /\ total_count_queried = 0
    /\ total_time_queried = 0
    /\ total_time_db_save = 0
    /\ dict_files_failed = << >>
    /\ mutex = [l \in LockNames |-> 0]
    /\ pc = [f \in Files |-> "start"]
    /\ output_video = [f \in Files |-> NoOutput]
    /\ output_audio = [f \in Files |-> NoOutput]
    /\ save_rest = [f \in Files |-> << >>]
    /\ events = [f \in Files |-> << >>]
    /\ tq = "running"

Init ==
    /\ InitPool
    /\ fn_phase = "unused"
    /\ fn_in = << >>
    /\ fn_out = << >>

\* lines 528-532
Gather(f) ==
    /\ pc[f] = "start" /\ percentage_gather /\ WorkerFree
    /\ Free("mutex_count")
    /\ total_count_percentage' = count_increment(total_count_percentage)
    /\ Goto(f, "return_gather")
    /\ UNCHANGED << mode_open, percentage_gather, verbose, db, offset, total_count_files,
                    total_count_queried, total_time_queried, total_time_db_save,
                    dict_files_failed, mutex, output_video, output_audio, save_rest, tq,
                    events, fn_phase, fn_in, fn_out >>

\* lines 534-535, and the test of line 580
CountFile(f) ==
    /\ pc[f] = "start" /\ ~percentage_gather /\ WorkerFree
    /\ Free("mutex_count")
    /\ total_count_files' = count_increment(total_count_files)
    /\ Goto(f, first_step(mode_open))
    /\ UNCHANGED << mode_open, percentage_gather, verbose, db, offset,
                    total_count_queried, total_count_percentage, total_time_queried,
                    total_time_db_save, dict_files_failed, mutex, output_video,
                    output_audio, save_rest, tq,
                    events, fn_phase, fn_in, fn_out >>

\* lines 580-582: no lock is held around the call
UpdateCheck(f) ==
    /\ pc[f] = "update_check"
    /\ LET r == query_file_update_check(path_components(f), db, offset, mode_open)
       IN  /\ offset' = r.offset
           /\ Goto(f, IF r.raised # "none" THEN "raised"
                      ELSE IF ~r.update THEN "return_skip"
                      ELSE "time_start")
    /\ Did(f, << "update_check" >>)
    /\ UNCHANGED << mode_open, percentage_gather, verbose, db, total_count_files,
                    total_count_queried, total_count_percentage, total_time_queried,
                    total_time_db_save, dict_files_failed, mutex, output_video,
                    output_audio, save_rest, tq,
                    fn_phase, fn_in, fn_out >>

\* lines 584-585
TimeStart(f) ==
    /\ pc[f] = "time_start"
    /\ Free("mutex_time")
    /\ mutex' = mutex_time_released(f)
    /\ Goto(f, "probe_video")
    /\ UNCHANGED << mode_open, percentage_gather, verbose, db, offset, total_count_files,
                    total_count_queried, total_count_percentage, total_time_queried,
                    total_time_db_save, dict_files_failed, output_video,
                    output_audio, save_rest, tq,
                    events, fn_phase, fn_in, fn_out >>

\* lines 597-614: the video probe returns or raises
ProbeVideo(f) ==
    /\ pc[f] = "probe_video"
    /\ \E r \in [st : {"ok"}, lines : VideoOutputs] \cup [st : ProbeFailures, lines : {<< >>}] :
          /\ output_video' = [output_video EXCEPT ![f] = r]
          /\ Goto(f, after_probe(r.st, "probe_audio"))
    /\ Did(f, << "probe_video" >>)
    /\ UNCHANGED << mode_open, percentage_gather, verbose, db, offset, total_count_files,
                    total_count_queried, total_count_percentage, total_time_queried,
                    total_time_db_save, dict_files_failed, mutex, output_audio,
                    save_rest, tq,
                    fn_phase, fn_in, fn_out >>

\* lines 617-634: the audio probe returns or raises
ProbeAudio(f) ==
    /\ pc[f] = "probe_audio"
    /\ \E r \in [st : {"ok"}, lines : AudioOutputs]
                    \cup [st : AudioProbeFailures, lines : {<< >>}] :
          /\ output_audio' = [output_audio EXCEPT ![f] = r]
          /\ Goto(f, after_probe(r.st, "lock_file"))
    /\ Did(f, << "probe_audio" >>)
    /\ UNCHANGED << mode_open, percentage_gather, verbose, db, offset, total_count_files,
                    total_count_queried, total_count_percentage, total_time_queried,
                    total_time_db_save, dict_files_failed, mutex, output_video,
                    save_rest, tq,
                    fn_phase, fn_in, fn_out >>

\* the exception the except clause is handling
exception_of(f) == IF output_video[f].st # "ok" THEN output_video[f].st ELSE output_audio[f].st

\* lines 637 and 662: no lock is held around the update
ExceptUpdate(f) ==
    /\ pc[f] = "except_update"
    /\ dict_files_failed' = dict_update(dict_files_failed, f, exception_of(f))
    /\ Goto(f, "except_console")
    /\ Did(f, << "failure_map" >>)
    /\ UNCHANGED << mode_open, percentage_gather, verbose, db, offset, total_count_files,
                    total_count_queried, total_count_percentage, total_time_queried,
                    total_time_db_save, mutex, output_video, output_audio, save_rest, tq,
                    fn_phase, fn_in, fn_out >>

\* lines 641-656 and 666-674: the report, printed under mutex_console
ExceptReport(f) ==
    /\ pc[f] = "except_console"
    /\ console_guard(f)
    /\ Goto(f, "toast")
    /\ Did(f, << "report" >>)
    /\ UNCHANGED << mode_open, percentage_gather, verbose, db, offset, total_count_files,
                    total_count_queried, total_count_percentage, total_time_queried,
                    total_time_db_save, dict_files_failed, mutex, output_video,
                    output_audio, save_rest, tq,
                    fn_phase, fn_in, fn_out >>

\* lines 658 and 676: show_toast returns
ShowToast(f) ==
    /\ pc[f] = "toast"
    /\ Goto(f, "progress")
    /\ Did(f, << "toast" >>)
    /\ UNCHANGED << mode_open, percentage_gather, verbose, db, offset, total_count_files,
                    total_count_queried, total_count_percentage, total_time_queried,
                    total_time_db_save, dict_files_failed, mutex, output_video,
                    output_audio, save_rest, tq,
                    fn_phase, fn_in, fn_out >>

\* lines 678-682: the probe time is added under mutex_time, then mutex_file is taken
FileLock(f) ==
    /\ pc[f] = "lock_file"
    /\ Free("mutex_time")
    /\ Free("mutex_file")
    /\ total_time_queried' = total_time_queried + 1
    /\ mutex' = Acquire("mutex_file", f)
    /\ Goto(f, "save")
    /\ UNCHANGED << mode_open, percentage_gather, verbose, db, offset, total_count_files,
                    total_count_queried, total_count_percentage, total_time_db_save,
                    dict_files_failed, output_video, output_audio, save_rest, tq,
                    events, fn_phase, fn_in, fn_out >>

\* lines 684-690: save_video_information up to its diagnostic, its exception or
\* its end.  An exception leaves the with block (the lock is released) and
\* query_file, which has no handler for it.
Save(f) ==
    /\ pc[f] = "save"
    /\ \E env \in FileSystemAnswers :
       \E r \in {save_video_information(path_text(path_components(f)), output_video[f].lines,
                                        output_audio[f].lines, label_volume_of(f), env)} :
        LET written == stream_write(db, f, r.pre)
        IN  /\ db' = written
            /\ offset' = stream_size(written)
            /\ save_rest' = [save_rest EXCEPT ![f] = r.post]
            /\ IF r.raised # "none"
               THEN /\ mutex' = with_exit("mutex_file") /\ Goto(f, "raised")
                    /\ Did(f, << "save_start", "save_raised" >>)
               ELSE IF r.diag # "none"
               THEN /\ UNCHANGED mutex /\ Goto(f, "save_diag")
                    /\ Did(f, << "save_start" >>)
               ELSE /\ mutex' = Release("mutex_file") /\ Goto(f, "count_queried")
                    /\ Did(f, << "save_start", "save_end" >>)
    /\ UNCHANGED << mode_open, percentage_gather, verbose, total_count_files,
                    total_count_queried, total_count_percentage, total_time_queried,
                    total_time_db_save, dict_files_failed, output_video, output_audio, tq,
                    fn_phase, fn_in, fn_out >>

\* line 202: lock_console_print_and_log, called inside save_video_information,
\* takes mutex_console while the caller holds mutex_file
SaveDiagnosticLock(f) ==
    /\ pc[f] = "save_diag"
    /\ console_guard(f)
    /\ mutex' = Acquire("mutex_console", f)
    /\ Goto(f, "save_diag_console")
    /\ UNCHANGED << mode_open, percentage_gather, verbose, db, offset, total_count_files,
                    total_count_queried, total_count_percentage, total_time_queried,
                    total_time_db_save, dict_files_failed, output_video, output_audio,
                    save_rest, tq,
                    events, fn_phase, fn_in, fn_out >>

\* lines 203-208, 334-339 and 402-413: the diagnostic is printed and
\* mutex_console released, then the call makes the rest of its writes;
\* mutex_file is released when the call has returned
SaveDiagnostic(f) ==
    /\ pc[f] = "save_diag_console"
    /\ LET written == stream_write(db, f, save_rest[f])
       IN  db' = written /\ offset' = stream_size(written)
    /\ save_rest' = [save_rest EXCEPT ![f] = << >>]
    /\ mutex' = [mutex EXCEPT !["mutex_console"] = 0, !["mutex_file"] = 0]
    /\ Goto(f, "count_queried")
    /\ Did(f, << IF long_enough(output_video[f].lines) THEN "diagnostic_audio"
                                                        ELSE "diagnostic_short",
                 "save_end" >>)
    /\ UNCHANGED << mode_open, percentage_gather, verbose, total_count_files,
                    total_count_queried, total_count_percentage, total_time_queried,
                    total_time_db_save, dict_files_failed, output_video, output_audio, tq,
                    fn_phase, fn_in, fn_out >>

\* lines 692-699: the write time is added under mutex_time, then the success
\* counter is incremented under mutex_count
CountQueried(f) ==
    /\ pc[f] = "count_queried"
    /\ Free("mutex_time")
    /\ Free("mutex_count")
    /\ total_time_db_save' = total_time_db_save + 1
    /\ total_count_queried' = count_increment(total_count_queried)
    /\ Goto(f, IF verbose THEN "verbose" ELSE "progress")
    /\ Did(f, << "count_queried" >>)
    /\ UNCHANGED << mode_open, percentage_gather, verbose, db, offset, total_count_files,
                    total_count_percentage, total_time_queried,
                    dict_files_failed, mutex, output_video, output_audio, save_rest, tq,
                    fn_phase, fn_in, fn_out >>

\* lines 699-712: lock_console_print_and_log
VerbosePrint(f) ==
    /\ pc[f] = "verbose"
    /\ console_guard(f)
    /\ Goto(f, "progress")
    /\ Did(f, << "verbose" >>)
    /\ UNCHANGED << mode_open, percentage_gather, verbose, db, offset, total_count_files,
                    total_count_queried, total_count_percentage, total_time_queried,
                    total_time_db_save, dict_files_failed, mutex, output_video,
                    output_audio, save_rest, tq,
                    fn_phase, fn_in, fn_out >>

\* lines 719-720: with mutex_count, and a target total was gathered
ProgressLock(f) ==
    /\ pc[f] = "progress"
    /\ total_count_percentage # 0
    /\ Free("mutex_count")
    /\ mutex' = Acquire("mutex_count", f)
    /\ Goto(f, "progress_locked")
    /\ UNCHANGED << mode_open, percentage_gather, verbose, db, offset, total_count_files,
                    total_count_queried, total_count_percentage, total_time_queried,
                    total_time_db_save, dict_files_failed, output_video, output_audio,
                    save_rest, tq,
                    events, fn_phase, fn_in, fn_out >>

\* line 721: mutex_console is taken while mutex_count is held
ProgressConsole(f) ==
    /\ pc[f] = "progress_locked"
    /\ console_guard(f)
    /\ mutex' = Acquire("mutex_console", f)
    /\ Goto(f, "progress_print")
    /\ UNCHANGED << mode_open, percentage_gather, verbose, db, offset, total_count_files,
                    total_count_queried, total_count_percentage, total_time_queried,
                    total_time_db_save, dict_files_failed, output_video, output_audio,
                    save_rest, tq,
                    events, fn_phase, fn_in, fn_out >>

\* lines 719-725: percentage_completion_print under both locks when a target
\* total was gathered, and only the test of line 720 under mutex_count when
\* none was; then the locks are released and query_file returns
Progress(f) ==
    /\ IF total_count_percentage # 0
       THEN /\ pc[f] = "progress_print"
            /\ Did(f, percentage_completion_print(total_count_queried, total_count_percentage,
                                                  total_count_queried, total_count_percentage))
            /\ mutex' = [mutex EXCEPT !["mutex_console"] = 0, !["mutex_count"] = 0]
       ELSE /\ pc[f] = "progress"
            /\ Free("mutex_count")
            /\ UNCHANGED << events, mutex >>
    /\ Goto(f, "return_end")
    /\ UNCHANGED << mode_open, percentage_gather, verbose, db, offset, total_count_files,
                    total_count_queried, total_count_percentage, total_time_queried,
                    total_time_db_save, dict_files_failed, output_video, output_audio,
                    save_rest, tq,
                    fn_phase, fn_in, fn_out >>

\* lines 929-942: starmap returns, or re-raises what a task raised
ThreadsQueryEnd ==
    /\ tq = "running"
    /\ \A f \in Files : pc[f] \in Terminal
    /\ tq' = IF \E f \in Files : pc[f] = "raised" THEN "raised" ELSE "returned"
    /\ UNCHANGED << mode_open, percentage_gather, verbose, db, offset, total_count_files,
                    total_count_queried, total_count_percentage, total_time_queried,
                    total_time_db_save, dict_files_failed, mutex, pc, output_video,
                    output_audio, save_rest,
                    events, fn_phase, fn_in, fn_out >>

Next ==
    \/ \E f \in Files : Gather(f)
    \/ \E f \in Files : CountFile(f)
    \/ \E f \in Files : UpdateCheck(f)
    \/ \E f \in Files : TimeStart(f)
    \/ \E f \in Files : ProbeVideo(f)
    \/ \E f \in Files : ProbeAudio(f)
    \/ \E f \in Files : ExceptUpdate(f)
    \/ \E f \in Files : ExceptReport(f)
    \/ \E f \in Files : ShowToast(f)
    \/ \E f \in Files : FileLock(f)
    \/ \E f \in Files : Save(f)
    \/ \E f \in Files : SaveDiagnosticLock(f)
    \/ \E f \in Files : SaveDiagnostic(f)
    \/ \E f \in Files : CountQueried(f)
    \/ \E f \in Files : VerbosePrint(f)
    \/ \E f \in Files : ProgressLock(f)
    \/ \E f \in Files : ProgressConsole(f)
    \/ \E f \in Files : Progress(f)
    \/ ThreadsQueryEnd

Spec == Init /\ [][Next]_vars

\* The threads of the pool are scheduled by the operating system: a step that
\* stays possible is eventually taken (the probes and the notification return).
FairSpec == Spec /\ WF_vars(Next)

\* the calls outside the program a worker waits in: the two probes (lines 597,
\* 617) and the notification (lines 658, 676)
Blocking == {"probe_video", "probe_audio", "toast"}

\* a step of the call for path f other than the return of such a call
Running(f) ==
    \/ Gather(f) \/ CountFile(f) \/ UpdateCheck(f) \/ TimeStart(f)
    \/ ExceptUpdate(f) \/ ExceptReport(f)
    \/ FileLock(f) \/ Save(f) \/ SaveDiagnosticLock(f) \/ SaveDiagnostic(f)
    \/ CountQueried(f) \/ VerbosePrint(f)
    \/ ProgressLock(f) \/ ProgressConsole(f) \/ Progress(f)

\* The same with a probe binary or a notification that may hang: a step of the
\* program that stays possible is eventually taken, a call outside the program
\* may never return.
HangSpec == Spec /\ WF_vars(\E f \in Files : Running(f))

-----------------------------------------------------------------------------
(* The pure functions on their own: no threads_query call is made, the     *)
(* pool's variables keep the values PoolIdle gives them.                   *)

PoolIdle ==
    /\ mode_open = "w"
    /\ percentage_gather = FALSE
    /\ verbose = FALSE
    /\ total_count_percentage = 0
    /\ db = << >>
    /\ offset = 0
    /\ total_count_files = 0
    /\ total_count_queried = 0
    /\ total_time_queried = 0
    /\ total_time_db_save = 0
    /\ dict_files_failed = << >>
    /\ mutex = [l \in LockNames |-> 0]
    /\ pc = [f \in Files |-> "start"]
    /\ output_video = [f \in Files |-> NoOutput]
    /\ output_audio = [f \in Files |-> NoOutput]
    /\ save_rest = [f \in Files |-> << >>]
    /\ events = [f \in Files |-> << >>]
    /\ tq = "idle"

\* The duration lines handed to the formatting: the numeric ones, the literal
\* N/A, and a text float() does not accept
InitHms ==
    /\ PoolIdle
    /\ fn_phase = "drawn"
    /\ fn_in \in DurationLines \cup {"N/A", "1:30"}
    /\ fn_out = ""

\* save_video_information, lines 269-279
FormatDuration ==
    /\ fn_phase = "drawn"
    /\ fn_out' = duration_field(fn_in)
    /\ fn_phase' = "formatted"
    /\ UNCHANGED << pool_vars, fn_in >>

NextHms == FormatDuration

SpecHms == InitHms /\ [][NextHms]_vars

-----------------------------------------------------------------------------
(* The row of one file written by save_video_information and read back by  *)
(* parse_metadata_file_tsv.  The texts drawn hold no tab, newline, quote   *)
(* or surrounding blank.                                                   *)

VideoCodecs ==
    {"H.265 / HEVC (High Efficiency Video Coding)", "Alliance for Open Media AV1",
     "H.264 / AVC / MPEG-4 AVC / MPEG-4 part 10"}

WidthLines == {"", "720", "1920"}

HeightLines == {"", "480", "1080"}

TitleLines == {<< >>, << "Up" >>}

EncodeVideoOutputs ==
    { << codec, width, height, "2", "Matroska / WebM", duration >> \o title :
        codec \in VideoCodecs, width \in WidthLines, height \in HeightLines,
        duration \in {"90", "N/A", "1:30"}, title \in TitleLines }
    \cup { << "2", "Matroska / WebM", "90" >> }

EncodeFileSystemAnswers ==
    { [stat |-> 1536, srt |-> -1, hi |-> -1], [stat |-> 1536, srt |-> 48, hi |-> 52],
      [stat |-> -1, srt |-> -1, hi |-> -1] }

\* csv.reader(file, delimiter = "\t"), first line: the texts between the tabs,
\* up to the newline or the end of the file
RECURSIVE csv_fields_from(_, _, _, _)
csv_fields_from(row, i, done, field) ==
    IF i > Len(row) THEN Append(done, field)
    ELSE IF row[i].t = "\n" THEN Append(done, field \o row[i].s)
    ELSE IF row[i].t = "\t"
         THEN csv_fields_from(row, i + 1, Append(done, field \o row[i].s), "")
         ELSE csv_fields_from(row, i + 1, done, field \o row[i].s)

csv_line(row) == IF Len(row) = 0 THEN << >> ELSE csv_fields_from(row, 1, << >>, "")

\* str.strip() of list_strings_strip, lines 1070-1071: the texts of the model
\* that carry blanks are the padded resolution fields and the blank size
str_strip(text) ==
    IF text = " " THEN ""
    ELSE IF \E y \in WidthLines \cup HeightLines, k \in 1..3 : text = Spaces(k) \o y
         THEN CHOOSE y \in WidthLines \cup HeightLines : \E k \in 1..3 : text = Spaces(k) \o y
         ELSE text

\* lines 1124-1126: width, height, duration, size, *_, volume, path = line
tuple_metadata_of(fields) ==
    << str_strip(fields[1]), str_strip(fields[2]), str_strip(fields[3]), str_strip(fields[4]),
       str_strip(fields[Len(fields) - 1]), str_strip(fields[Len(fields)]) >>

InitEncode ==
    /\ PoolIdle
    /\ fn_phase = "drawn"
    /\ fn_in \in [lines_video : EncodeVideoOutputs, lines_audio : AudioOutputs,
                  env : EncodeFileSystemAnswers]
    /\ fn_out = [row |-> << >>, diag |-> "none", raised |-> "none",
                 fields |-> << >>, tuple_metadata |-> << >>]

\* save_video_information on a fresh stream
EncodeRow ==
    /\ fn_phase = "drawn"
    /\ LET r == save_video_information("/v/D1/f1.mkv", fn_in.lines_video, fn_in.lines_audio,
                                       "/", fn_in.env)
       IN  fn_out' = [fn_out EXCEPT !.row = r.pre \o r.post, !.diag = r.diag,
                                    !.raised = r.raised]
    /\ fn_phase' = "encoded"
    /\ UNCHANGED << pool_vars, fn_in >>

\* parse_metadata_file_tsv, lines 1120-1126, on what the stream holds: a line
\* of fewer than six fields cannot be unpacked
ParseRow ==
    /\ fn_phase = "encoded"
    /\ LET fields == csv_line(fn_out.row)
       IN  fn_out' = [fn_out EXCEPT
                        !.fields = fields,
                        !.raised = IF Len(fields) \in 1..5 THEN "ValueError (unpack)" ELSE @,
                        !.tuple_metadata = IF Len(fields) >= 6 THEN tuple_metadata_of(fields)
                                           ELSE << >>]
    /\ fn_phase' = "parsed"
    /\ UNCHANGED << pool_vars, fn_in >>

NextEncode == EncodeRow \/ ParseRow

SpecEncode == InitEncode /\ [][NextEncode]_vars

-----------------------------------------------------------------------------
(* The progress reporter on its own: percentage_completion_print called as *)
(* line 722 calls it, with the success counter as count_processed, for     *)
(* every target total up to MaxTotal and every value of the success        *)
(* counter up to the target.                                               *)

InitProgress ==
    /\ PoolIdle
    /\ fn_phase = "counted"
    /\ fn_in \in { c \in [queried : 0..MaxTotal, percentage : 1..MaxTotal] :
                        c.queried <= c.percentage }
    /\ fn_out = << >>

\* lines 720-725
ProgressPrint ==
    /\ fn_phase = "counted"
    /\ fn_out' = percentage_completion_print(fn_in.queried, fn_in.percentage,
                                             fn_in.queried, fn_in.percentage)
    /\ fn_phase' = "printed"
    /\ UNCHANGED << pool_vars, fn_in >>

NextProgress == ProgressPrint

SpecProgress == InitProgress /\ [][NextProgress]_vars

-----------------------------------------------------------------------------
(* The variant report of process_path, lines 1319-1326: for every top-level *)
(* path parse_metadata_file_tsv reads the path's database into a fresh     *)
(* dict_file_names and the module's list_file_names (line 49), and         *)
(* variant_report prints from the two.  Here a text is the sequence of its *)
(* characters.  A row is reduced to its path field, the only field the     *)
(* grouping reads.                                                         *)

\* "".join(text.split(identifier)): text without the occurrences of identifier
RECURSIVE split_join(_, _)
split_join(text, identifier) ==
    IF Len(text) < Len(identifier) THEN text
    ELSE IF SubSeq(text, 1, Len(identifier)) = identifier
         THEN split_join(SubSeq(text, Len(identifier) + 1, Len(text)), identifier)
         ELSE << text[1] >> \o split_join(Tail(text), identifier)

\* the index of the first character ch of text, 0 when there is none
find_first(text, ch) ==
    IF \E i \in 1..Len(text) : text[i] = ch
    THEN CHOOSE i \in 1..Len(text) : text[i] = ch /\ \A j \in 1..(i - 1) : text[j] # ch
    ELSE 0

\* the index of the last character ch of text, 0 when there is none
find_last(text, ch) ==
    IF \E i \in 1..Len(text) : text[i] = ch
    THEN CHOOSE i \in 1..Len(text) : text[i] = ch /\ \A j \in (i + 1)..Len(text) : text[j] # ch
    ELSE 0

\* text.partition(ch)[0] and text.partition(ch)[2]
partition_head(text, ch) ==
    IF find_first(text, ch) = 0 THEN text ELSE SubSeq(text, 1, find_first(text, ch) - 1)

partition_tail(text, ch) ==
    IF find_first(text, ch) = 0 THEN << >>
    ELSE SubSeq(text, find_first(text, ch) + 1, Len(text))

\* text.strip()
RECURSIVE strip(_)
strip(text) ==
    IF Len(text) = 0 THEN text
    ELSE IF text[1] = " " THEN strip(Tail(text))
    ELSE IF text[Len(text)] = " " THEN strip(SubSeq(text, 1, Len(text) - 1))
    ELSE text

\* os.path.basename(path)
basename(path) == SubSeq(path, find_last(path, "/") + 1, Len(path))

\* os.path.splitext(path)[0]: the extension starts at the last dot of the last
\* component, unless that dot is the component's first character
splitext_root(path) ==
    LET dot == find_last(path, ".")
    IN  IF dot > find_last(path, "/") + 1 THEN SubSeq(path, 1, dot - 1) ELSE path

\* lines 1086-1089
identifiers == << << "[", "4", "K", "]" >>, << "[", "A", "V", "1", "]" >>, << "[", "3", "D", "]" >> >>

RECURSIVE identifiers_removed(_, _)
identifiers_removed(title, i) ==
    IF i > Len(identifiers) THEN title
    ELSE identifiers_removed(split_join(title, identifiers[i]), i + 1)

\* parse_file_name_from_path, lines 1075-1103
parse_file_name_from_path(root) ==
    LET title == identifiers_removed(basename(root), 1)
        release_year == partition_tail(title, "[")
    IN  IF Len(release_year) # 0
        THEN [title |-> strip(partition_tail(title, "]")),
              release_year |-> partition_head(release_year, "]")]
        ELSE [title |-> strip(title), release_year |-> release_year]

\* dict_file_names[title] of a defaultdict(list): a missing key reads as []
dict_get(dict, title) == IF title \in DOMAIN dict THEN dict[title] ELSE << >>

\* dict_file_names[title].append(tuple_metadata)
dict_append(dict, title, tuple_metadata) ==
    [t \in (DOMAIN dict) \cup {title} |->
        IF t = title THEN Append(dict_get(dict, title), tuple_metadata) ELSE dict[t]]

\* the rows variant_report prints for a title: from the last one appended to the first
RECURSIVE rows_printed(_)
rows_printed(rows) ==
    IF Len(rows) = 0 THEN << >>
    ELSE << rows[Len(rows)] >> \o rows_printed(SubSeq(rows, 1, Len(rows) - 1))

\* variant_report, lines 1147-1213: the groups printed, for the titles of
\* list_file_names from index i on.  count_variant is len(...) - 1, and a group
\* is printed when it is not zero.
RECURSIVE variant_report_from(_, _, _)
variant_report_from(dict, titles, i) ==
    IF i > Len(titles) THEN << >>
    ELSE (IF Len(dict_get(dict, titles[i])) - 1 # 0
          THEN << [title |-> titles[i], rows |-> rows_printed(dict_get(dict, titles[i]))] >>
          ELSE << >>)
         \o variant_report_from(dict, titles, i + 1)

variant_report(dict, titles) == variant_report_from(dict, titles, 1)

\* The paths found in the databases
VariantPaths ==
    { << "/", "v", "/", "[", "1", "0", "]", " ", "U", "p", ".", "m", "k", "v" >>,
      << "/", "v", "/", "[", "1", "0", "]", " ", "U", "p", " ", "[", "4", "K", "]", ".", "m", "k", "v" >>,
      << "/", "w", "/", "U", "p", " ", "[", "3", "D", "]", ".", "m", "k", "v" >>,
      << "/", "v", "/", "[", "1", "1", "]", " ", "I", "p", ".", "m", "k", "v" >>,
      << "/", "w", "/", "[", "1", "1", "]", " ", "I", "p", " ", "[", "A", "V", "1", "]", ".", "m", "k", "v" >> }

\* the end of the database of one top-level path
EndOfDatabase == << >>

\* What the run reads: the path fields of the rows of the databases of its
\* top-level paths, one database after the other
VariantRuns == UNION { [1..n -> VariantPaths \cup {EndOfDatabase}] : n \in 1..MaxLines }

InitVariants ==
    /\ PoolIdle
    /\ fn_phase = "parse"
    /\ fn_in \in VariantRuns
    \* line 49 and line 1323
    /\ fn_out = [list_file_names |-> << >>, dict_file_names |-> << >>, line |-> 1,
                 reports |-> << >>]

\* parse_metadata_file_tsv, lines 1122-1142: one turn of the loop
ParseLine ==
    /\ fn_phase = "parse"
    /\ fn_out.line <= Len(fn_in)
    /\ fn_in[fn_out.line] # EndOfDatabase
    /\ LET path == splitext_root(strip(fn_in[fn_out.line]))
           title == parse_file_name_from_path(path).title
           dict == dict_append(fn_out.dict_file_names, title, strip(fn_in[fn_out.line]))
       IN  fn_out' = [fn_out EXCEPT
                        !.dict_file_names = dict,
                        !.list_file_names = IF Len(dict[title]) = 1 THEN Append(@, title) ELSE @,
                        !.line = @ + 1]
    /\ UNCHANGED << pool_vars, fn_in, fn_phase >>

\* lines 1326 and 1231, 1321-1323: variant_report at the end of the path's
\* database; the next top-level path starts with a fresh dict_file_names
VariantReport ==
    /\ fn_phase = "parse"
    /\ IF fn_out.line > Len(fn_in) THEN TRUE ELSE fn_in[fn_out.line] = EndOfDatabase
    /\ fn_out' = [fn_out EXCEPT
                    !.reports = Append(@, variant_report(fn_out.dict_file_names,
                                                         fn_out.list_file_names)),
                    !.dict_file_names = << >>,
                    !.line = @ + 1]
    /\ fn_phase' = IF fn_out.line > Len(fn_in) THEN "done" ELSE "parse"
    /\ UNCHANGED << pool_vars, fn_in >>

NextVariants == ParseLine \/ VariantReport

SpecVariants == InitVariants /\ [][NextVariants]_vars

-----------------------------------------------------------------------------
(* One run of the program: main, lines 1475-1606, with process_path        *)
(* (1217-1341) and db_metadata_merge (1361-1456).  fn_in is the command    *)
(* line and the host, fn_out the variables of the three functions and the  *)
(* files the run has written, fn_phase the position of the run.  What      *)
(* process_dir and the query_file call for a standalone file do is the     *)
(* subject of Spec; here they return or raise.                             *)

\* platform.system()
Systems == {"Windows", "Linux", "Darwin"}

\* is_supported_platform, lines 52-53
is_supported_platform(system) == system = "Windows" \/ system = "Linux"

\* The arguments of the command line: a directory, a file, or a name nothing
\* on the disk has
ArgumentNames == {"A", "B"}

Arguments == [name : ArgumentNames, kind : {"dir", "file", "missing"}]

\* files_to_process after [*set(files_to_process)], line 1496: no argument
\* twice, in any order
ArgumentLists ==
    {<< >>} \cup {<< a >> : a \in Arguments}
        \cup {pair \in Arguments \X Arguments : pair[1].name # pair[2].name}

\* cmd_line_parse, lines 850-915: the update and the merge option exclude
\* each other
CommandLines ==
    {c \in [update_metadata : BOOLEAN, merge_metadata : BOOLEAN, percentage_show : BOOLEAN,
            verbose : BOOLEAN, files_to_process : ArgumentLists] :
        ~(c.update_metadata /\ c.merge_metadata)}

\* os.path.exists(file), os.path.isdir(path)
os_path_exists(file) == file.kind # "missing"

os_path_isdir(path) == path.kind = "dir"

\* lines 1366-1376: the loop over the inputs, left at the first missing one
merge_first_input_only(files_to_process) ==
    Len(files_to_process) = 0 \/ os_path_exists(files_to_process[1])

merge_allowed(files_to_process) ==
    \A i \in 1..Len(files_to_process) : os_path_exists(files_to_process[i])

\* file_dimensions_sort, lines 767-833: the values its result `error` can have.
\* Off Windows option_reverse is the empty string (line 779), which the sort
\* command takes for the name of an input file: it exits nonzero, subprocess.run
\* raises CalledProcessError and error stays True.
file_dimensions_sort(system) == IF system = "Windows" THEN {FALSE, TRUE} ELSE {TRUE}

\* lines 1286-1287
exit_code_last_sort(exit_code, error) == IF error THEN 1 ELSE 0

exit_code_after_sort(exit_code, error) == IF error THEN 1 ELSE exit_code

\* db_name_generate, lines 508-514: the names of the files of a merge, and of
\* the database of a top-level path (named after the volume the path is on)
db_name(label) == "db - " \o label

\* The lines of the files of a merge: the header line written at lines
\* 1405-1424, and rows, of which the model keeps the width they start with
header_line == [kind |-> "header", width |-> 0]

row_line(width) == [kind |-> "row", width |-> width]

\* what the databases given to a merge hold
input_lines(file) ==
    IF file.name = "A" THEN << row_line(720), row_line(2160) >> ELSE << row_line(1080) >>

\* files_merge, lines 1345-1354: the contents of the files of the list are
\* copied to the target one after the other
files_merge_first_only(list_files) == list_files[1]

RECURSIVE files_merge(_)
files_merge(list_files) ==
    IF list_files = << >> THEN << >>
    ELSE Head(list_files) \o files_merge(Tail(list_files))

\* what sort.exe /R leaves in the file when it succeeds (lines 769-799): the
\* lines from the highest to the lowest
RECURSIVE sort_reverse(_)
sort_reverse(lines) ==
    IF lines = << >> THEN << >>
    ELSE LET m == CHOOSE i \in 1..Len(lines) :
                        \A j \in 1..Len(lines) : lines[j].width <= lines[i].width
         IN  << lines[m] >>
                \o sort_reverse(SubSeq(lines, 1, m - 1) \o SubSeq(lines, m + 1, Len(lines)))

\* a file written with the lines given, and a file removed (os.remove)
file_put(content, name, lines) ==
    [n \in (DOMAIN content) \cup {name} |-> IF n = name THEN lines ELSE content[n]]

file_remove(content, names) == [n \in (DOMAIN content) \ names |-> content[n]]

\* lines 1234-1236 and 1121: a stream opened by a `with` statement is closed
\* when the block is left, by its end or by an exception
streams_after_leak(streams, stream) == streams

streams_after_with(streams, stream) == streams \ {stream}

\* the stream process_path opens on the database of a path (line 1234), and
\* the stream query_file opens on it for a standalone file (line 550)
stream_of(function) == [file |-> db_name("volume"), by |-> function]

\* query_file for a standalone file, lines 537-582, 588-676 and 714-717: how
\* the call ends and whether it leaves the stream it opened open.  The stream
\* is closed at line 717 only, in the else clause of the probes' try statement.
query_file_standalone(io_open, stream, probe) ==
    IF io_open # "ok" THEN [outcome |-> "returned", open |-> FALSE]
    ELSE LET check == query_file_update_check(path_components(1), stream,
                                              stream_size(stream), "a")
         IN  IF check.raised # "none" THEN [outcome |-> "raised", open |-> TRUE]
             ELSE IF ~check.update THEN [outcome |-> "returned", open |-> TRUE]
             ELSE IF probe # "ok" THEN [outcome |-> "returned", open |-> TRUE]
             ELSE [outcome |-> "returned", open |-> FALSE]

\* what one process_dir call that returns adds to the counters of query_file:
\* the files it dispatched, those of them that came to the success counter,
\* and a measured interval of probe time and of write time for each of these
process_dir_counts ==
    { [files |-> c[1], queried |-> c[2], time_queried |-> c[2], time_db_save |-> c[2]] :
        c \in {d \in (0..NumFiles) \X (0..NumFiles) : d[2] <= d[1]} }

\* lines 759-763: the counters when the module is loaded
counters_zero == [files |-> 0, queried |-> 0, time_queried |-> 0, time_db_save |-> 0]

counters_add(counters, added) ==
    [files |-> counters.files + added.files,
     queried |-> counters.queried + added.queried,
     time_queried |-> counters.time_queried + added.time_queried,
     time_db_save |-> counters.time_db_save + added.time_db_save]

InitMain ==
    /\ PoolIdle
    /\ fn_phase = "main"
    /\ fn_in \in [system : Systems, probe_isfile : BOOLEAN, argv : CommandLines]
    /\ fn_out = [exit_code |-> [main |-> 0, process_path |-> 0, db_metadata_merge |-> 0],
                 merge |-> TRUE,
                 percentage_gather |-> FALSE,
                 index |-> 1,
                 file_standalone_path |-> "None",
                 sorts |-> << >>,
                 streams |-> {},
                 counters |-> counters_zero,
                 storage |-> {},
                 content |-> << >>,
                 steps |-> << >>,
                 returned |-> {},
                 exit_status |-> "running"]

Phase(label) == fn_phase' = label

\* lines 1476-1547 and 1584-1598: main up to the call it makes, if any
MainStart ==
    /\ fn_phase = "main"
    /\ IF ~is_supported_platform(fn_in.system) \/ Len(fn_in.argv.files_to_process) = 0
       THEN fn_out' = [fn_out EXCEPT !.exit_code.main = 1] /\ Phase("main_end")
       ELSE IF fn_in.argv.percentage_show
                    /\ (fn_in.argv.update_metadata \/ fn_in.argv.merge_metadata)
       THEN UNCHANGED fn_out /\ Phase("main_end")
       ELSE IF fn_in.argv.merge_metadata
       THEN UNCHANGED fn_out /\ Phase("merge_validate")
       ELSE IF ~fn_in.probe_isfile
       THEN fn_out' = [fn_out EXCEPT !.exit_code.main = 1] /\ Phase("main_end")
       ELSE /\ fn_out' = [fn_out EXCEPT !.percentage_gather = fn_in.argv.percentage_show]
            /\ Phase("path_open")
    /\ UNCHANGED << pool_vars, fn_in >>

\* lines 1362-1378 and 1456: the inputs are looked up; with one missing the
\* function returns, and main takes its result (line 1521)
MergeValidate ==
    /\ fn_phase = "merge_validate"
    /\ IF merge_allowed(fn_in.argv.files_to_process)
       THEN UNCHANGED fn_out /\ Phase("merge_header")
       ELSE /\ fn_out' = [fn_out EXCEPT !.merge = FALSE,
                                        !.exit_code.db_metadata_merge = 1,
                                        !.exit_code.main = 1,
                                        !.returned = @ \cup {"db_metadata_merge"}]
            /\ Phase("main_end")
    /\ UNCHANGED << pool_vars, fn_in >>

\* lines 1380-1424: the header file is written
MergeHeader ==
    /\ fn_phase = "merge_header"
    /\ fn_out' = [fn_out EXCEPT
                    !.storage = @ \cup {db_name("Header")},
                    !.content = file_put(@, db_name("Header"), << header_line >>),
                    !.steps = Append(@, "header")]
    /\ Phase("merge_temp")
    /\ UNCHANGED << pool_vars, fn_in >>

\* lines 1427-1429, files_merge 1345-1354: the target is opened for writing, then
\* every input for reading; a directory cannot be opened (IsADirectoryError)
MergeTemp ==
    /\ fn_phase = "merge_temp"
    /\ fn_out' = [fn_out EXCEPT
                    !.storage = @ \cup {db_name("Merged - Temp")},
                    !.content =
                        file_put(@, db_name("Merged - Temp"),
                                 IF \E i \in 1..Len(fn_in.argv.files_to_process) :
                                        os_path_isdir(fn_in.argv.files_to_process[i])
                                 THEN << >>
                                 ELSE files_merge([i \in 1..Len(fn_in.argv.files_to_process) |->
                                                    input_lines(fn_in.argv.files_to_process[i])])),
                    !.steps = Append(@, "concatenate"),
                    !.exit_status =
                        IF \E i \in 1..Len(fn_in.argv.files_to_process) :
                                os_path_isdir(fn_in.argv.files_to_process[i])
                        THEN 1 ELSE @]
    /\ Phase(IF \E i \in 1..Len(fn_in.argv.files_to_process) :
                    os_path_isdir(fn_in.argv.files_to_process[i])
             THEN "exited" ELSE "merge_sort")
    /\ UNCHANGED << pool_vars, fn_in >>

\* lines 1433-1442: the temporary file is sorted; the final file is written
\* when the sort reports no error
MergeSort ==
    /\ fn_phase = "merge_sort"
    /\ \E error \in file_dimensions_sort(fn_in.system) :
          fn_out' = [fn_out EXCEPT
                        !.sorts = Append(@, [file |-> db_name("Merged - Temp"), error |-> error]),
                        !.storage = IF error THEN @ ELSE @ \cup {db_name("Merged")},
                        !.content =
                            IF error THEN @
                            ELSE LET sorted == sort_reverse(@[db_name("Merged - Temp")])
                                 IN  file_put(file_put(@, db_name("Merged - Temp"), sorted),
                                              db_name("Merged"),
                                              files_merge(<< @[db_name("Header")], sorted >>)),
                        !.steps = IF error THEN Append(@, "sort")
                                  ELSE @ \o << "sort", "final" >>,
                        !.exit_code.db_metadata_merge = IF error THEN 1 ELSE @]
    /\ Phase("merge_cleanup")
    /\ UNCHANGED << pool_vars, fn_in >>

\* lines 1444-1456 and 1521: the two temporary files are removed, the function
\* returns and main takes its result
MergeCleanup ==
    /\ fn_phase = "merge_cleanup"
    /\ fn_out' = [fn_out EXCEPT
                    !.storage = @ \ {db_name("Merged - Temp"), db_name("Header")},
                    !.content = file_remove(@, {db_name("Merged - Temp"), db_name("Header")}),
                    !.steps = Append(@, "remove"),
                    !.exit_code.main = fn_out.exit_code.db_metadata_merge,
                    !.returned = @ \cup {"db_metadata_merge"}]
    /\ Phase("main_end")
    /\ UNCHANGED << pool_vars, fn_in >>

\* the top-level path the loop of process_path is at
path_at == fn_in.argv.files_to_process[fn_out.index]

\* lines 1231-1252: the database of the path is opened (created when it is not
\* there); a directory is handed to process_dir, which returns, or raises what
\* threads_query raised; anything else is kept as the standalone file
PathOpen ==
    /\ fn_phase = "path_open"
    /\ fn_out.index <= Len(fn_in.argv.files_to_process)
    /\ \E outcome \in IF os_path_isdir(path_at) /\ ~fn_out.percentage_gather
                      THEN {"returned", "raised"} ELSE {"returned"} :
       \E added \in IF os_path_isdir(path_at) /\ ~fn_out.percentage_gather
                         /\ outcome = "returned"
                    THEN process_dir_counts ELSE {counters_zero} :
          /\ fn_out' = [fn_out EXCEPT
                          !.storage = @ \cup {db_name("volume")},
                          !.streams = streams_after_with(@ \cup {stream_of("process_path")},
                                                         stream_of("process_path")),
                          !.counters = counters_add(@, added),
                          !.file_standalone_path =
                              IF os_path_isdir(path_at) THEN @ ELSE path_at.name,
                          !.exit_status = IF outcome = "raised" THEN 1 ELSE @]
          /\ Phase(IF outcome = "raised" THEN "exited"
                   ELSE IF fn_out.percentage_gather THEN "path_next" ELSE "path_query")
    /\ UNCHANGED << pool_vars, fn_in >>

\* lines 1254-1283: in update mode query_file is called for the standalone
\* file (it counts the file at line 535, then opens its own stream on the
\* database); otherwise the file is only named in a message
PathQuery ==
    /\ fn_phase = "path_query"
    /\ IF fn_out.file_standalone_path # "None" /\ fn_in.argv.update_metadata
       THEN \E io_open \in {"ok", "OSError"}, stream \in ExistingDbs,
               probe \in {"ok", "CalledProcessError"} :
               LET r == query_file_standalone(io_open, stream, probe)
               IN  /\ fn_out' = [fn_out EXCEPT
                                   !.exit_status = IF r.outcome = "raised" THEN 1 ELSE @,
                                   !.streams = IF r.open THEN @ \cup {stream_of("query_file")}
                                               ELSE @,
                                   !.counters.files = @ + 1]
                   /\ Phase(IF r.outcome = "raised" THEN "exited" ELSE "path_sort")
       ELSE UNCHANGED fn_out /\ Phase("path_sort")
    /\ UNCHANGED << pool_vars, fn_in >>

\* lines 1285-1317: the database is sorted and the totals are printed
PathSort ==
    /\ fn_phase = "path_sort"
    /\ \E error \in file_dimensions_sort(fn_in.system) :
          fn_out' = [fn_out EXCEPT
                        !.sorts = Append(@, [file |-> path_at.name, error |-> error]),
                        !.exit_code.process_path =
                            exit_code_after_sort(fn_out.exit_code.process_path, error)]
    /\ Phase("path_next")
    /\ UNCHANGED << pool_vars, fn_in >>

\* lines 1319-1326 and 1231: the variant report when verbose (see SpecVariants),
\* then the next path
PathNext ==
    /\ fn_phase = "path_next"
    /\ fn_out' = [fn_out EXCEPT !.index = @ + 1]
    /\ Phase("path_open")
    /\ UNCHANGED << pool_vars, fn_in >>

\* lines 1328-1341, and 1556-1568 or 1573-1583: after the last path the failures
\* are listed and process_path returns.  main drops the result of the pre-pass
\* and calls process_path again; it takes the result of the probing pass.
PathsEnd ==
    /\ fn_phase = "path_open"
    /\ fn_out.index > Len(fn_in.argv.files_to_process)
    /\ IF fn_out.percentage_gather
       THEN /\ fn_out' = [fn_out EXCEPT !.percentage_gather = FALSE, !.index = 1,
                                        !.file_standalone_path = "None",
                                        !.exit_code.process_path = 0]
            /\ Phase("path_open")
       ELSE /\ fn_out' = [fn_out EXCEPT
                            !.exit_code.main = IF fn_out.exit_code.process_path # 0 THEN 1 ELSE @,
                            !.returned = @ \cup {"process_path"}]
            /\ Phase("main_end")
    /\ UNCHANGED << pool_vars, fn_in >>

\* lines 1600-1606: main returns exit_code to the module's last statement,
\* `main(sys.argv)`, which drops it; the interpreter ends with status 0
MainEnd ==
    /\ fn_phase = "main_end"
    /\ fn_out' = [fn_out EXCEPT !.returned = @ \cup {"main"}, !.exit_status = 0]
    /\ Phase("exited")
    /\ UNCHANGED << pool_vars, fn_in >>

NextMain ==
    \/ MainStart
    \/ MergeValidate \/ MergeHeader \/ MergeTemp \/ MergeSort \/ MergeCleanup
    \/ PathOpen \/ PathQuery \/ PathSort \/ PathNext \/ PathsEnd
    \/ MainEnd

SpecMain == InitMain /\ [][NextMain]_vars

-----------------------------------------------------------------------------
(***************************************************************************)
(* The lists handed to the pool in one run over directories: main, lines   *)
(* 1541-1582, process_path 1217-1249 and process_dir 975-1064.  fn_in is   *)
(* the command line and what is on the disk under each directory, fn_out   *)
(* the list main creates once and hands to both passes, the calls of       *)
(* threads_query made, the target total and the markers created.           *)
(***************************************************************************)

\* the top-level directories and the volumes they can be on
Directories == {"A", "B"}

Labels == {"v1", "v2"}

\* under a directory: its video files (numbered), whether it has a
\* sub-directory named in `filters` (lines 992-1003), and its volume
Trees == [Directories -> [videos : 0..NumFiles, filtered : BOOLEAN, label : Labels]]

DirectoryLists ==
    {<< d >> : d \in Directories}
        \cup {pair \in Directories \X Directories : pair[1] # pair[2]}

\* os.walk(path) with the extension test of lines 1015-1043: the video files
\* found under the directory, in the order of the walk
os_walk(tree, path) == [i \in 1..tree[path].videos |-> [dir |-> path, n |-> i]]

\* lines 1557-1565: the pre-pass call has seven positional arguments, so the
\* parameter nomedia_create receives the verbose flag and verbose its default
prepass_arguments(argv) == [nomedia_create |-> argv.verbose, verbose |-> FALSE]

\* lines 1573-1582
probing_arguments(argv) == [nomedia_create |-> argv.nomedia_create, verbose |-> argv.verbose]

\* process_dir, lines 989-1048: the directory is walked only when the list it
\* was handed is empty; the walk appends to that list in place, and makes
\* the markers as it goes when its parameter nomedia_create is set
process_dir_walks(list_files_from_dir) == Len(list_files_from_dir) = 0

process_dir_list(tree, path, list_files_from_dir) ==
    IF process_dir_walks(list_files_from_dir)
    THEN list_files_from_dir \o os_walk(tree, path)
    ELSE list_files_from_dir

InitDispatch ==
    /\ PoolIdle
    /\ fn_phase = "main"
    /\ fn_in \in [argv : [percentage_show : BOOLEAN, nomedia_create : BOOLEAN,
                          verbose : BOOLEAN, files_to_process : DirectoryLists],
                  tree : Trees]
    /\ fn_out = [percentage_gather |-> FALSE,
                 index |-> 1,
                 list_files_from_dir |-> << >>,
                 dispatched |-> << >>,
                 total_count_percentage |-> 0,
                 markers |-> {}]

\* lines 1541-1570: the list is created, and the pre-pass is asked for or not
DispatchStart ==
    /\ fn_phase = "main"
    /\ fn_out' = [fn_out EXCEPT !.percentage_gather = fn_in.argv.percentage_show]
    /\ fn_phase' = "process_path"
    /\ UNCHANGED << pool_vars, fn_in >>

\* lines 1231-1249 with process_dir and threads_query: one top-level
\* directory.  In the pre-pass every path of the list handed to threads_query
\* adds one to the target total (lines 528-532).
ProcessDir ==
    /\ fn_phase = "process_path"
    /\ fn_out.index <= Len(fn_in.argv.files_to_process)
    /\ LET path == fn_in.argv.files_to_process[fn_out.index]
           arguments == IF fn_out.percentage_gather THEN prepass_arguments(fn_in.argv)
                        ELSE probing_arguments(fn_in.argv)
           walked == process_dir_walks(fn_out.list_files_from_dir)
           list == process_dir_list(fn_in.tree, path, fn_out.list_files_from_dir)
       IN  fn_out' = [fn_out EXCEPT
                        !.list_files_from_dir = list,
                        !.markers = IF walked /\ arguments.nomedia_create
                                       /\ fn_in.tree[path].filtered
                                    THEN @ \cup {path} ELSE @,
                        !.dispatched = Append(@, [path |-> path,
                                                  files |-> list,
                                                  db |-> db_name(fn_in.tree[path].label),
                                                  percentage_gather |-> fn_out.percentage_gather]),
                        !.total_count_percentage =
                            IF fn_out.percentage_gather THEN @ + Len(list) ELSE @,
                        !.index = @ + 1]
    /\ UNCHANGED << pool_vars, fn_phase, fn_in >>

\* lines 1328-1341 and 1566-1583: process_path returns; after the pre-pass
\* main calls it again with the same list
ProcessPathReturn ==
    /\ fn_phase = "process_path"
    /\ fn_out.index > Len(fn_in.argv.files_to_process)
    /\ IF fn_out.percentage_gather
       THEN /\ fn_out' = [fn_out EXCEPT !.percentage_gather = FALSE, !.index = 1]
            /\ UNCHANGED fn_phase
       ELSE /\ UNCHANGED fn_out
            /\ fn_phase' = "returned"
    /\ UNCHANGED << pool_vars, fn_in >>

NextDispatch == DispatchStart \/ ProcessDir \/ ProcessPathReturn

SpecDispatch == InitDispatch /\ [][NextDispatch]_vars

-----------------------------------------------------------------------------
(* Vocabulary of the properties *)

\* a probe call of path f raised
probe_failed(f) == output_video[f].st \in ProbeFailures \/ output_audio[f].st \in ProbeFailures

\* both probe calls of path f returned
probe_succeeded(f) == output_video[f].st = "ok" /\ output_audio[f].st = "ok"

\* the bursts of the stream written by the call for path f
writes_of(f) == {i \in 1..Len(db) : db[i].o = f}

\* the positions of the newlines in the stream: burst i, write j
newlines ==
    UNION { {<< i, j >> : j \in {k \in 1..Len(db[i].w) : db[i].w[k].t = "\n"}} : i \in 1..Len(db) }

\* the call for path f wrote its row up to the newline
row_written(f) == \E p \in newlines : db[p[1]].o = f

\* the rows added to the stream by this threads_query call: one per newline written
rows_added == Cardinality({p \in newlines : db[p[1]].o \in Files})

\* the last write of burst i
last_write(i) == db[i].w[Len(db[i].w)]

\* the paths the update check told query_file to leave alone
files_skipped == {f \in Files : pc[f] = "return_skip"}

\* the paths whose probe failed
files_failed == {f \in Files : probe_failed(f)}

\* the paths whose probes returned with a video output below the minimum line count
files_malformed ==
    {f \in Files : probe_succeeded(f) /\ ~long_enough(output_video[f].lines)}

\* the parent directory name of path f stands somewhere in the database
parent_in_db(f) ==
    \E i \in 1..Len(db) :
        \E j \in 1..Len(db[i].w) :
            contains_text(db[i].w[j].s, os_path_basename(os_path_dirname(path_components(f))))

-----------------------------------------------------------------------------
(* Properties of the dispatcher *)

\* C1: a path whose probe failed (nonzero exit, or the tool cannot be launched)
\* ends with a normal return of query_file and an entry in the failure map; once
\* threads_query has ended every path has reached its own end, and if
\* threads_query raised, a call whose probes did not fail raised.
C1ProbeFailureIsolated ==
    /\ \A f \in Files :
          (probe_failed(f) /\ pc[f] \in Terminal)
              => (pc[f] = "return_end" /\ f \in DOMAIN dict_files_failed)
    /\ tq # "running" => \A g \in Files : pc[g] \in Terminal
    /\ tq = "raised" => \E g \in Files : pc[g] = "raised" /\ ~probe_failed(g)

\* the tool could not be launched for one path, another path got its row, and
\* threads_query returned
C1Witness ==
    /\ tq = "returned"
    /\ \E f, g \in Files :
          /\ output_video[f].st = "FileNotFoundError"
          /\ dict_files_failed[f] = "FileNotFoundError"
          /\ row_written(g)

\* C2: every write on the stream comes from a call whose video probe and audio
\* probe both returned; a path whose probe failed has, once its call has ended,
\* an entry in the failure map and no write on the stream.
C2RowOnlyAfterBothProbes ==
    /\ \A i \in 1..Len(db) : db[i].o \in Files => probe_succeeded(db[i].o)
    /\ \A f \in Files :
          (probe_failed(f) /\ pc[f] \in Terminal)
              => (f \in DOMAIN dict_files_failed /\ writes_of(f) = {})

\* the audio probe of one path failed after its video probe had returned a
\* complete output, and another path's row is on the stream
C2Witness ==
    \E f, g \in Files :
        /\ output_video[f].st = "ok" /\ long_enough(output_video[f].lines)
        /\ output_audio[f].st = "CalledProcessError"
        /\ pc[f] = "return_end"
        /\ writes_of(f) = {}
        /\ row_written(g)

\* C3: the success counter plus the number of entries of the failure map never
\* exceeds the discovered-files counter.
C3CountersBounded ==
    total_count_queried + Cardinality(DOMAIN dict_files_failed) <= total_count_files

\* every path is counted, one as a success and one as a failure
C3Witness ==
    /\ total_count_files = NumFiles
    /\ total_count_queried >= 1
    /\ Cardinality(DOMAIN dict_files_failed) >= 1
    /\ total_count_queried + Cardinality(DOMAIN dict_files_failed) = NumFiles

\* C4 (as stated): once threads_query has returned from a probing pass over
\* NumFiles paths, the stream has gained NumFiles rows less the skipped and the
\* failed paths.
C4RowsAsStated ==
    (tq = "returned" /\ ~percentage_gather)
        => rows_added = NumFiles - Cardinality(files_skipped) - Cardinality(files_failed)

\* C4 (amended): once threads_query has returned from a probing pass over
\* NumFiles paths, the stream has gained NumFiles rows less the skipped paths,
\* the failed paths and the paths whose video output was below the minimum
\* line count.
C4RowsLessMalformed ==
    (tq = "returned" /\ ~percentage_gather)
        => rows_added = NumFiles - Cardinality(files_skipped) - Cardinality(files_failed)
                            - Cardinality(files_malformed)

\* threads_query returned; one path had a short video output and got no row,
\* another path got its row
C4Witness ==
    /\ tq = "returned" /\ ~percentage_gather
    /\ \E f, g \in Files : f \in files_malformed /\ writes_of(f) = {} /\ row_written(g)

\* C5 (as stated): the writes of one path's row are contiguous on the stream and
\* end with one newline: a write that is not the newline is followed, if by
\* anything, by a write of the same path, and no path has two newlines.
C5RowsContiguous ==
    /\ \A i \in 1..(Len(db) - 1) : last_write(i).t # "\n" => db[i + 1].o = db[i].o
    /\ \A f \in Files : Cardinality({p \in newlines : db[p[1]].o = f}) <= 1

\* C6 (as stated): in update mode, a path whose parent directory name stands in
\* the database leaves the update check by the return of query_file, with no
\* probe made, no write, no success counted and no failure-map entry.
C6UpdateFilterSkips ==
    \A f \in Files :
        (mode_open = "a" /\ parent_in_db(f) /\ pc[f] \notin {"start", "update_check"})
            => /\ pc[f] = "return_skip"
               /\ output_video[f] = NoOutput /\ output_audio[f] = NoOutput
               /\ writes_of(f) = {}
               /\ total_count_queried = 0
               /\ f \notin DOMAIN dict_files_failed

\* the three outcomes of the statement, and the fourth the code has
outcome_success(f) == row_written(f)

outcome_skipped(f) == f \in files_skipped

outcome_failed(f) == f \in DOMAIN dict_files_failed

outcome_malformed(f) == f \in files_malformed /\ writes_of(f) = {}

exactly_one(flags) == Cardinality({i \in 1..Len(flags) : flags[i]}) = 1

\* C7 (as stated): when threads_query has returned from a probing pass, every
\* path has exactly one of the outcomes: row written, skipped, recorded as failed.
C7ThreeOutcomes ==
    (tq = "returned" /\ ~percentage_gather)
        => \A f \in Files :
              exactly_one(<< outcome_success(f), outcome_skipped(f), outcome_failed(f) >>)

\* C7 (amended): threads_query ends (it returns, or re-raises what a call
\* raised), and when it has returned from a probing pass every path has exactly
\* one of the outcomes: row written, skipped, recorded as failed, or left out for
\* a video output below the minimum line count.
C7EndsWithFourOutcomes ==
    /\ <>(tq # "running")
    /\ [](  (tq = "returned" /\ ~percentage_gather)
            => \A f \in Files :
                  exactly_one(<< outcome_success(f), outcome_skipped(f),
                                 outcome_failed(f), outcome_malformed(f) >>)  )

\* threads_query returned with one path recorded as failed and one left out for
\* its short video output
C7Witness ==
    /\ tq = "returned"
    /\ \E f, g \in Files : outcome_failed(f) /\ outcome_malformed(g)

\* the call for path f did step e
did(f, e) == \E i \in 1..Len(events[f]) : events[f][i] = e

\* the call for path f did step a, and did it before step b
before(f, a, b) ==
    \E i, j \in 1..Len(events[f]) : i < j /\ events[f][i] = a /\ events[f][j] = b

\* C14 (as stated): with a target total gathered, the final message is printed
\* once the success counter has reached the target total (at the latest by the
\* time threads_query returns), and it is never printed while the success
\* counter is below the target total.
C14FinalMessageAtTotal ==
    total_count_percentage # 0
        => /\ (tq = "returned" /\ total_count_queried = total_count_percentage)
                 => \E f \in Files : did(f, "All files in queue queried")
           /\ (\E f \in Files : did(f, "All files in queue queried"))
                 => total_count_queried = total_count_percentage

\* C15: a path whose video output is below the minimum line count never has a
\* write on the stream; its save_video_information call prints the diagnostic
\* and returns, and query_file returns at its end.
C15ShortOutputWritesNothing ==
    \A f \in files_malformed :
        /\ writes_of(f) = {}
        /\ pc[f] # "raised" /\ ~did(f, "save_raised")
        /\ did(f, "save_end") => before(f, "diagnostic_short", "save_end")
        /\ pc[f] \in Terminal => (pc[f] = "return_end" /\ did(f, "save_end"))

\* threads_query returned; the call for a short video output printed its
\* diagnostic and returned without a write, and another path's row was written
\* after that call had taken the stream's lock
C15Witness ==
    /\ tq = "returned"
    /\ \E f, g \in Files :
          /\ f \in files_malformed /\ did(f, "diagnostic_short") /\ pc[f] = "return_end"
          /\ writes_of(f) = {}
          /\ row_written(g)

\* C16 (as stated): a call that has entered save_video_information never leaves
\* query_file by an exception and leaves either no write or a whole row on the
\* stream; threads_query does not raise on account of such a call.
C16EncoderFailureContained ==
    /\ \A f \in Files :
          did(f, "save_start")
              => /\ pc[f] # "raised"
                 /\ pc[f] \in Terminal => (writes_of(f) = {} \/ row_written(f))
    /\ tq = "raised" => \E f \in Files : pc[f] = "raised" /\ ~did(f, "save_start")

\* C18: in the call for one path, the update check (append mode) is done before
\* the video probe, the audio probe before the row write starts, and the row
\* write has returned before the success counter is incremented.
C18StepsInOrder ==
    \A f \in Files :
        /\ (mode_open = "a" /\ did(f, "probe_video")) => before(f, "update_check", "probe_video")
        /\ did(f, "probe_audio") => before(f, "probe_video", "probe_audio")
        /\ did(f, "save_start") => before(f, "probe_audio", "save_start")
        /\ did(f, "count_queried") => before(f, "save_end", "count_queried")

\* a call went through both probes, the row write and the success count
C18Witness ==
    \E f \in Files :
        /\ row_written(f)
        /\ before(f, "probe_video", "probe_audio")
        /\ before(f, "probe_audio", "save_start")
        /\ before(f, "save_end", "count_queried")
        /\ pc[f] = "return_end"

\* the call for path f operates on the stream in this step: the update check's
\* tell, seek and scan, or writes of save_video_information
stream_operation(f) ==
    pc[f] \in {"update_check", "save", "save_diag_console"} /\ pc'[f] # pc[f]

\* C19 (as stated): every step in which a call operates on the stream, the
\* update check's tell, seek and scan included, is taken by the holder of
\* mutex_file, and the stream's offset moves only in such a step.
C19StreamUnderFileLock ==
    [][ /\ \A f \in Files : stream_operation(f) => mutex["mutex_file"] = f
        /\ offset' # offset => mutex["mutex_file"] # 0 ]_vars

\* C20 (as stated): every step that changes the failure map is taken by the
\* holder of mutex_list_files_failed_probe.
C20FailureMapUnderLock ==
    [][ dict_files_failed' # dict_files_failed
            => mutex["mutex_list_files_failed_probe"] # 0 ]_vars

\* C22: a worker waiting in a probe call or in the notification holds none of
\* the five locks, and with such calls free never to return every call comes
\* to its end or to such a call of its own: in the end the only calls that have
\* not ended are those waiting for a probe or for the notification.
C22NoLockWhileBlocked ==
    /\ [](\A f \in Files : pc[f] \in Blocking => \A l \in LockNames : mutex[l] # f)
    /\ <>[](\A f \in Files : pc[f] \in Blocking \cup Terminal)

\* one call waits in the video probe and another has written its row and
\* returned
C22Witness ==
    \E f, g \in Files :
        /\ pc[g] = "probe_video"
        /\ pc[f] = "return_end" /\ row_written(f) /\ did(f, "count_queried")

\* the nestings the statement allows: the lock held, then the lock taken
LockOrder == { << "mutex_count", "mutex_console" >>, << "mutex_file", "mutex_console" >> }

\* the locks the call for path f holds
locks_held(f) == {l \in LockNames : mutex[l] = f}

\* C23: a call takes a lock while it holds another only in the order
\* mutex_count then mutex_console or mutex_file then mutex_console; a call that
\* has left query_file, by return or by exception, holds no lock; and with the
\* workers scheduled fairly every call comes to its end, so that no call waits
\* for a lock for ever.
C23NoDeadlock ==
    /\ [][ \A f \in Files : \A l \in LockNames :
              (mutex'[l] = f /\ mutex[l] # f)
                  => \A h \in locks_held(f) : << h, l >> \in LockOrder ]_vars
    /\ [](\A f \in Files : pc[f] \in Terminal => locks_held(f) = {})
    /\ <>[](\A f \in Files : pc[f] \in Terminal)

\* one call holds mutex_count and mutex_console for its status line while
\* another holds mutex_file and waits for mutex_console to print a diagnostic
C23Witness ==
    \E f, g \in Files :
        /\ pc[f] = "progress_print" /\ locks_held(f) = {"mutex_count", "mutex_console"}
        /\ pc[g] = "save_diag" /\ locks_held(g) = {"mutex_file"}

\* the steps a call records that print nothing
Silent == {"update_check", "probe_video", "probe_audio", "failure_map", "toast",
           "save_start", "save_end", "save_raised", "count_queried"}

\* the call for path f prints in this step: the probe error report, a
\* diagnostic of the encoder, the verbose message or a line of the progress
\* report
emits(f) ==
    \E i \in (Len(events[f]) + 1)..Len(events'[f]) : events'[f][i] \notin Silent

\* C24: a step in which a call prints is never taken while another call holds
\* mutex_console: the call holds the lock itself, or takes and releases it
\* within the step.
C24ConsoleUnderLock ==
    [][ \A f \in Files : emits(f) => mutex["mutex_console"] \in {0, f} ]_vars

\* a call has printed its verbose message and holds mutex_console for its
\* status line, while another call waits for the lock to print its own
\* verbose message
C24Witness ==
    \E f, g \in Files :
        /\ did(f, "verbose") /\ pc[f] = "progress_print" /\ mutex["mutex_console"] = f
        /\ pc[g] = "verbose"

\* C25 (as stated): a call of query_file_update_check, whether it finds the
\* directory name in the database or not, returns (it does not raise) and
\* leaves the stream's offset where it found it.
C25OffsetRestored ==
    [][ \A f \in Files :
            (pc[f] = "update_check" /\ pc'[f] # "update_check")
                => (pc'[f] # "raised" /\ offset' = offset) ]_vars

\* the places in the calls' records where the status line of counter value k
\* stands
status_printed(k) ==
    { e \in Files \X (1..(5 * NumFiles)) :
        /\ e[2] <= Len(events[e[1]])
        /\ events[e[1]][e[2]] = status_line(k, total_count_percentage) }

\* C27 (as stated): with a target total gathered, no value of the success
\* counter has its status line printed twice, and once threads_query has
\* returned every value the counter took that is below the target total and a
\* multiple of the checkpoint interval has its status line printed once.
C27OneLinePerCheckpoint ==
    total_count_percentage # 0
        => \A k \in 1..NumFiles :
              /\ Cardinality(status_printed(k)) <= 1
              /\ (  /\ tq = "returned"
                    /\ k <= total_count_queried /\ k < total_count_percentage
                    /\ k % CHECKPOINT_FILES_QUERIED(total_count_percentage) = 0  )
                    => Cardinality(status_printed(k)) = 1

\* the calls that have made their first increment
calls_counted == {f \in Files : pc[f] # "start"}

\* the calls that reached the success branch and came to its counter
calls_succeeded == {f \in Files : did(f, "count_queried")}

\* C21: no increment is lost.  In a probing pass total_count_files is at every
\* moment the number of calls that have counted their path and
\* total_count_queried the number of calls that came to the success counter;
\* when threads_query returns these are the number of calls and the number of
\* calls whose probes both returned.  In a gathering pass
\* total_count_percentage is the number of calls that have counted, and the
\* number of calls when threads_query returns.
C21NoIncrementLost ==
    /\ ~percentage_gather
          => /\ total_count_files = Cardinality(calls_counted)
             /\ total_count_queried = Cardinality(calls_succeeded)
    /\ percentage_gather
          => /\ total_count_percentage = Cardinality(calls_counted)
             /\ total_count_files = 0 /\ total_count_queried = 0
    /\ tq = "returned"
          => IF percentage_gather THEN total_count_percentage = NumFiles
             ELSE /\ total_count_files = NumFiles
                  /\ total_count_queried = Cardinality({f \in Files : probe_succeeded(f)})

\* threads_query returned from a probing pass in which every call came to the
\* success counter
C21Witness ==
    /\ tq = "returned" /\ ~percentage_gather
    /\ total_count_files = NumFiles
    /\ total_count_queried = NumFiles
    /\ \A f \in Files : did(f, "count_queried")

-----------------------------------------------------------------------------
(* Properties of the progress reporter *)

\* the status lines that show a percentage from 0 to 99
status_lines_below_100 == { ToString(k) \o "% of files in queue queried" : k \in 0..99 }

\* C26: what the progress reporter prints while the success counter is below
\* the target total is a status line whose percentage is below 100.
C26PercentageBelow100 ==
    (fn_phase = "printed" /\ fn_in.queried < fn_in.percentage)
        => \A i \in 1..Len(fn_out) : fn_out[i] \in status_lines_below_100

\* one file short of a target total above 200, at a checkpoint, the reporter
\* has printed 99%
C26Witness ==
    /\ fn_phase = "printed"
    /\ fn_in.percentage > 200 /\ fn_in.queried = fn_in.percentage - 1
    /\ fn_out = << "99% of files in queue queried" >>

-----------------------------------------------------------------------------
(* Properties of the variant report *)

\* the databases of the run, as sequences of rows
RECURSIVE databases_from(_, _, _)
databases_from(lines, i, current) ==
    IF i > Len(lines) THEN << current >>
    ELSE IF lines[i] = EndOfDatabase
         THEN << current >> \o databases_from(lines, i + 1, << >>)
         ELSE databases_from(lines, i + 1, Append(current, lines[i]))

databases == databases_from(fn_in, 1, << >>)

\* the rows of the database being read that have been read
rows_read == LET read == databases_from(SubSeq(fn_in, 1, fn_out.line - 1), 1, << >>)
             IN  read[Len(read)]

\* the title the file name of a row's path normalizes to
title_of(path) == parse_file_name_from_path(splitext_root(strip(path))).title

\* the rows of a database with a title, by index
rows_titled(database, title) == {i \in 1..Len(database) : title_of(database[i]) = title}

\* the row of a database where a title is first met
first_row(database, title) ==
    CHOOSE i \in rows_titled(database, title) : \A j \in rows_titled(database, title) : i <= j

\* the titles of a database that two or more of its rows have
variant_titles(database) ==
    {title_of(database[i]) : i \in {j \in 1..Len(database) :
                                       Cardinality(rows_titled(database, title_of(database[j]))) >= 2}}

\* the groups of a report printed for a title
groups_titled(report, title) == {i \in 1..Len(report) : report[i].title = title}

\* C11 (as stated): the rows read from a database whose file names normalize to
\* the same title stand under one key of dict_file_names; the report of a
\* database has, for every title two or more of its rows have, one group, with
\* exactly those rows; and these groups come in the order in which their titles
\* are first met in the database.
C11VariantsGrouped ==
    /\ fn_phase = "parse"
          => \A t \in {title_of(rows_read[i]) : i \in 1..Len(rows_read)} :
                /\ t \in DOMAIN fn_out.dict_file_names
                /\ fn_out.dict_file_names[t] =
                        SelectSeq(rows_read, LAMBDA row : title_of(row) = t)
    /\ \A k \in 1..Len(fn_out.reports) :
          \A t \in variant_titles(databases[k]) :
              /\ Cardinality(groups_titled(fn_out.reports[k], t)) = 1
              /\ \A i \in groups_titled(fn_out.reports[k], t) :
                    /\ Len(fn_out.reports[k][i].rows) = Cardinality(rows_titled(databases[k], t))
                    /\ {fn_out.reports[k][i].rows[n] : n \in 1..Len(fn_out.reports[k][i].rows)}
                          = {databases[k][n] : n \in rows_titled(databases[k], t)}
              /\ \A u \in variant_titles(databases[k]) :
                    first_row(databases[k], t) < first_row(databases[k], u)
                        => \A i \in groups_titled(fn_out.reports[k], t),
                              j \in groups_titled(fn_out.reports[k], u) : i < j

-----------------------------------------------------------------------------
(* Properties of the run *)

\* an input of the command line is not on the disk
input_missing ==
    \E i \in 1..Len(fn_in.argv.files_to_process) : ~os_path_exists(fn_in.argv.files_to_process[i])

\* the files a merge writes
merge_files == {db_name("Header"), db_name("Merged - Temp"), db_name("Merged")}

\* C12: in a merge with an input that does not exist, no header file, no
\* temporary file and no merged file is ever written, the merge goes no further
\* than the look-up of its inputs, and db_metadata_merge returns a nonzero code.
C12MergeAbortsOnMissingInput ==
    (fn_in.argv.merge_metadata /\ input_missing)
        => /\ fn_out.storage \cap merge_files = {}
           /\ fn_phase \notin {"merge_header", "merge_temp", "merge_sort", "merge_cleanup"}
           /\ "db_metadata_merge" \in fn_out.returned
                 => fn_out.exit_code.db_metadata_merge # 0

\* db_metadata_merge has returned 1 for two inputs of which the first exists
\* and the second does not, with nothing written
C12Witness ==
    /\ "db_metadata_merge" \in fn_out.returned
    /\ Len(fn_in.argv.files_to_process) = 2
    /\ os_path_exists(fn_in.argv.files_to_process[1])
    /\ ~os_path_exists(fn_in.argv.files_to_process[2])
    /\ fn_out.exit_code.db_metadata_merge = 1
    /\ fn_out.storage = {}

\* what went wrong in the run
sort_failed == \E i \in 1..Len(fn_out.sorts) : fn_out.sorts[i].error

merge_invalid == ~fn_out.merge

unsupported == ~is_supported_platform(fn_in.system)

\* main got as far as looking for the probe binary, and it is not there
probe_missing ==
    /\ ~unsupported
    /\ Len(fn_in.argv.files_to_process) # 0
    /\ ~fn_in.argv.merge_metadata
    /\ ~(fn_in.argv.percentage_show /\ fn_in.argv.update_metadata)
    /\ ~fn_in.probe_isfile

\* C13 (as stated): when the run has ended by the return of main, the exit
\* status of the process is 1 if a sort or the look-up of the merge's inputs
\* failed, nonzero if the probe binary is missing or the platform unsupported,
\* and 0 if none of these happened to a run with arguments.
C13ExitStatus ==
    (fn_phase = "exited" /\ "main" \in fn_out.returned)
        => /\ (sort_failed \/ merge_invalid) => fn_out.exit_status = 1
           /\ (probe_missing \/ unsupported) => fn_out.exit_status # 0
           /\ (~sort_failed /\ ~merge_invalid /\ ~probe_missing /\ ~unsupported
                    /\ Len(fn_in.argv.files_to_process) # 0)
                 => fn_out.exit_status = 0

\* C17: in a probing pass, once a sort has failed the exit code of process_path
\* is 1 and stays 1, and process_path returns only after it has gone through
\* every top-level path, each up to its sort.
C17SortFailureKeepsGoing ==
    ~fn_in.argv.merge_metadata
        => /\ sort_failed => fn_out.exit_code.process_path = 1
           /\ "process_path" \in fn_out.returned
                 => /\ Len(fn_out.sorts) = Len(fn_in.argv.files_to_process)
                    /\ \A i \in 1..Len(fn_out.sorts) :
                          fn_out.sorts[i].file = fn_in.argv.files_to_process[i].name

\* process_path has returned 1 after the sort failed for the first of two
\* paths and succeeded for the second
C17Witness ==
    /\ "process_path" \in fn_out.returned
    /\ Len(fn_out.sorts) = 2
    /\ fn_out.sorts[1].error /\ ~fn_out.sorts[2].error
    /\ fn_out.exit_code.process_path = 1

-----------------------------------------------------------------------------
(* Properties of the row encoder *)

\* the compression-candidate fields of the row just written
candidate_fields == {fn_out.row[i].s : i \in {k \in 1..Len(fn_out.row) : fn_out.row[k].c = "candidate"}}

codec_drawn == line(fn_in.lines_video, INDEX_OUTPUT_LINE_VIDEO_CODEC_LONG_NAME)

\* C8 (as stated): the compression-candidate field is "N" when the codec name
\* is the HEVC one and "Y" for any other codec name.
C8CandidateHevcOnly ==
    (fn_phase # "drawn" /\ long_enough(fn_in.lines_video))
        => \A c \in candidate_fields :
              c = IF codec_drawn = "H.265 / HEVC (High Efficiency Video Coding)" THEN "N" ELSE "Y"

\* C8 (amended): the compression-candidate field depends on the codec name
\* alone: it is "N" when the codec name is the HEVC one or the AV1 one, and "Y"
\* for any other codec name.
C8CandidateByAllowList ==
    (fn_phase # "drawn" /\ long_enough(fn_in.lines_video))
        => \A c \in candidate_fields :
              c = IF codec_drawn \in {"H.265 / HEVC (High Efficiency Video Coding)",
                                      "Alliance for Open Media AV1"}
                  THEN "N" ELSE "Y"

\* a row of an AV1 file was written with the field "N"
C8Witness ==
    /\ fn_phase = "encoded"
    /\ codec_drawn = "Alliance for Open Media AV1"
    /\ candidate_fields = {"N"}

\* C9 (as stated): the duration field of 0.5 seconds is "0.5s", of 90 seconds
\* "1m:30s", of 3661 seconds "1h:1m:1s", and of the literal N/A the literal.
C9DurationExamples ==
    fn_phase = "formatted"
        => /\ fn_in = "0.5" => fn_out = "0.5s"
           /\ fn_in = "90" => fn_out = "1m:30s"
           /\ fn_in = "3661" => fn_out = "1h:1m:1s"
           /\ fn_in = "N/A" => fn_out = "N/A"

\* what the statement expects to read back
width_expected == IF line(fn_in.lines_video, INDEX_OUTPUT_LINE_VIDEO_WIDTH) = "" THEN "0000"
                  ELSE line(fn_in.lines_video, INDEX_OUTPUT_LINE_VIDEO_WIDTH)

height_expected == IF line(fn_in.lines_video, INDEX_OUTPUT_LINE_VIDEO_HEIGHT) = "" THEN "0000"
                   ELSE line(fn_in.lines_video, INDEX_OUTPUT_LINE_VIDEO_HEIGHT)

title_expected == IF Len(fn_in.lines_video) = INDEX_OUTPUT_LINE_TITLE THEN "<Title Not Set>"
                  ELSE line(fn_in.lines_video, INDEX_OUTPUT_LINE_TITLE)

\* the field of the line read back that the title write of the row ends
title_column ==
    LET k == CHOOSE i \in 1..Len(fn_out.row) : fn_out.row[i].c = "title"
    IN  Cardinality({i \in 1..k : fn_out.row[i].t = "\t"})

\* C10 (as stated): for a video output of at least the minimum line count whose
\* row was written to its end, the first field read back is the width, the
\* second the height and the title field the title, with the placeholders
\* for an empty width or height and an absent title.
C10RoundTrip ==
    (fn_phase = "parsed" /\ long_enough(fn_in.lines_video) /\ fn_out.raised = "none")
        => /\ fn_out.tuple_metadata[1] = width_expected
           /\ fn_out.tuple_metadata[2] = height_expected
           /\ fn_out.fields[title_column] = title_expected

\* C28 (as stated): a row written to its end starts with the width field, then
\* the height field, each the placeholder 0000 when its line is empty and its
\* value (right-aligned) when it is not, and the duration is its third field.
C28TwoResolutionFields ==
    (fn_phase = "encoded" /\ long_enough(fn_in.lines_video) /\ fn_out.raised = "none")
        => /\ str_strip(fn_out.row[1].s) = width_expected /\ fn_out.row[1].t = "\t"
           /\ str_strip(fn_out.row[2].s) = height_expected /\ fn_out.row[2].t = "\t"
           /\ fn_out.row[3].s
                    = duration_field(line(fn_in.lines_video, INDEX_OUTPUT_LINE_VIDEO_DURATION))

(***************************************************************************)
(* Properties of the streams and the counters of a run                     *)
(***************************************************************************)

\* the streams this run has opened on the database of the path and not closed
streams_open_on(file) == {stream \in fn_out.streams : stream.file = file}

C30CountersZeroAtBatchStart ==
    (/\ fn_phase = "path_open"
     /\ ~fn_out.percentage_gather
     /\ fn_out.index <= Len(fn_in.argv.files_to_process))
        => fn_out.counters = counters_zero

(***************************************************************************)
(* Properties of the lists handed to the pool                              *)
(***************************************************************************)

\* the query_file calls of the pre-pass (gather) or of the probing pass: one
\* for every path of every list handed to threads_query in that pass
RECURSIVE query_file_calls(_, _)
query_file_calls(dispatched, gather) ==
    IF dispatched = << >> THEN 0
    ELSE (IF Head(dispatched).percentage_gather = gather
          THEN Len(Head(dispatched).files) ELSE 0)
         + query_file_calls(Tail(dispatched), gather)

\* in a pre-pass of the pool the calls do nothing but count: no probe, no
\* row, no entry in the failure map, the four run counters untouched, and
\* the target total is the number of calls that have counted
gather_only_counts ==
    percentage_gather =>
        /\ db = << >> /\ dict_files_failed = << >>
        /\ total_count_files = 0 /\ total_count_queried = 0
        /\ total_time_queried = 0 /\ total_time_db_save = 0
        /\ \A f \in Files : output_video[f] = NoOutput /\ output_audio[f] = NoOutput
        /\ total_count_percentage = Cardinality({f \in Files : pc[f] # "start"})

\* C31 (as stated): when a run with a pre-pass has ended, the target total
\* gathered by the pre-pass equals the number of query_file calls made in the
\* probing pass that followed it.
C31TargetEqualsCalls ==
    (fn_phase = "returned" /\ fn_in.argv.percentage_show)
        => fn_out.total_count_percentage = query_file_calls(fn_out.dispatched, FALSE)

\* the files of a list, as a set
files_in(list) == {list[k] : k \in DOMAIN list}

\* C32 (as stated): the list handed to the pool for a top-level directory is
\* exactly the set of video files found under that directory, and the
\* database its rows go to is the one derived for the directory each file of
\* the list is under.
C32DispatchedOwnFiles ==
    fn_phase # "main" =>
        \A i \in DOMAIN fn_out.dispatched :
            LET call == fn_out.dispatched[i]
            IN  /\ files_in(call.files) = files_in(os_walk(fn_in.tree, call.path))
                /\ \A file \in files_in(call.files) :
                       call.db = db_name(fn_in.tree[file.dir].label)

\* C37 (as stated): when the run has ended, a top-level directory with a
\* filtered sub-directory has got its marker if and only if the marker flag
\* was given, whatever the progress and the verbose flag are.
C37MarkersIffFlag ==
    fn_phase = "returned" =>
        \A k \in DOMAIN fn_in.argv.files_to_process :
            LET path == fn_in.argv.files_to_process[k]
            IN  fn_in.tree[path].filtered
                    => (path \in fn_out.markers <=> fn_in.argv.nomedia_create)

(***************************************************************************)
(* Properties of the rows on the stream after dispatch                     *)
(***************************************************************************)

\* the writes of a stream, one after the other
RECURSIVE stream_writes(_)
stream_writes(stream) ==
    IF stream = << >> THEN << >> ELSE Head(stream).w \o stream_writes(Tail(stream))

\* the lines of a file holding these writes: the texts written up to each
\* newline, and what stands after the last newline if anything does
RECURSIVE lines_from(_, _, _)
lines_from(writes, i, current) ==
    IF i > Len(writes) THEN (IF current = << >> THEN {} ELSE {current})
    ELSE IF writes[i].t = "\n"
         THEN {Append(current, writes[i].s)} \cup lines_from(writes, i + 1, << >>)
         ELSE lines_from(writes, i + 1, Append(current, writes[i].s))

rows_present(stream) == lines_from(stream_writes(stream), 1, << >>)

\* the stream the same calls leave when they run one after the other in the
\* order of the input list: the bursts of the database before the run, then
\* those of path 1, of path 2, ...
RECURSIVE bursts_in_order(_)
bursts_in_order(f) ==
    IF f > NumFiles THEN << >>
    ELSE SelectSeq(db, LAMBDA burst : burst.o = f) \o bursts_in_order(f + 1)

stream_in_input_order == SelectSeq(db, LAMBDA burst : burst.o \notin Files) \o bursts_in_order(1)

\* C33 (as stated): when the dispatch has ended, the set of rows in the
\* database is the one the calls leave when run one after the other in input
\* order, whatever the interleaving of the workers was.
C33RowsSameForEveryInterleaving ==
    tq \in {"returned", "raised"} => rows_present(db) = rows_present(stream_in_input_order)

\* the same, for a dispatch that returned
rows_same_when_returned ==
    tq = "returned" => rows_present(db) = rows_present(stream_in_input_order)

\* C34 (as stated): when threads_query has returned from a probing pass, the
\* success counter is the number of rows the run wrote, and every call that
\* incremented it wrote its row up to the newline.
C34QueriedEqualsRows ==
    (tq = "returned" /\ ~percentage_gather)
        => /\ total_count_queried = rows_added
           /\ \A f \in Files : did(f, "count_queried") => row_written(f)

(***************************************************************************)
(* Properties of the variant reports of a run over several paths           *)
(***************************************************************************)

\* C35 (as stated): in a verbose run over any sequence of top-level paths, the
\* report of a database names a title only if two or more rows of that
\* database have it, and names every such title exactly once; a title with
\* one row, or met only in a database processed before, is not named.
C35VariantsOfThisDatabaseOnly ==
    \A k \in 1..Len(fn_out.reports) :
        /\ \A i \in 1..Len(fn_out.reports[k]) :
               /\ fn_out.reports[k][i].title \in variant_titles(databases[k])
               /\ groups_titled(fn_out.reports[k], fn_out.reports[k][i].title) = {i}
        /\ \A t \in variant_titles(databases[k]) :
               Cardinality(groups_titled(fn_out.reports[k], t)) = 1

\* the same for the first database of a run
variants_of_first_database ==
    Len(fn_out.reports) >= 1 =>
        /\ \A i \in 1..Len(fn_out.reports[1]) :
               /\ fn_out.reports[1][i].title \in variant_titles(databases[1])
               /\ groups_titled(fn_out.reports[1], fn_out.reports[1][i].title) = {i}
        /\ \A t \in variant_titles(databases[1]) :
               Cardinality(groups_titled(fn_out.reports[1], t)) = 1

(***************************************************************************)
(* Properties of the merge                                                 *)
(***************************************************************************)

\* the steps of a merge whose inputs all exist, in the order stated
merge_steps_sorted == << "header", "concatenate", "sort", "final", "remove" >>

merge_steps_unsorted == << "header", "concatenate", "sort", "remove" >>

is_prefix(s, t) == Len(s) <= Len(t) /\ s = SubSeq(t, 1, Len(s))

\* the inputs of the merge, one after the other in the order of the list
inputs_concatenated ==
    files_merge([i \in 1..Len(fn_in.argv.files_to_process) |->
                    input_lines(fn_in.argv.files_to_process[i])])

merge_returned_unsorted ==
    /\ "db_metadata_merge" \in fn_out.returned /\ fn_out.merge
    /\ sort_failed
    /\ fn_out.storage = {}

(***************************************************************************)
(* Properties of the duration token                                        *)
(***************************************************************************)

\* the concise token of the one decomposition of s whole seconds into hours,
\* minutes below 60 and seconds below 60, with the zero hours and the zero
\* minutes left out
hms_token_exact(s) ==
    (IF s \div 3600 # 0 THEN ToString(s \div 3600) \o "h:" ELSE "")
        \o (IF (s % 3600) \div 60 # 0 THEN ToString((s % 3600) \div 60) \o "m:" ELSE "")
        \o (ToString(s % 60) \o "s")

\* C38 (as stated): for a whole number of seconds s the token holds hours h,
\* minutes m < 60 and seconds c < 60 with h*3600 + m*60 + c = s, a component
\* being left out only when it is zero: the token is that of the exact
\* decomposition of s.
C38HmsDecomposition ==
    (fn_phase = "formatted" /\ fn_in \in DurationLines)
        => \A s \in 0..86399 :
              float_hundredths(fn_in) = 100 * s => fn_out = hms_token_exact(s)

\* the same for the durations below one minute and the whole minutes
hms_exact_below_minute ==
    (fn_phase = "formatted" /\ fn_in \in DurationLines)
        => \A s \in (0..59) \cup {60, 120, 3600, 7200} :
              float_hundredths(fn_in) = 100 * s => fn_out = hms_token_exact(s)
====
